---- MODULE Spec2Model ----
(***************************************************************************)
(* Offline content delivery of the podcast PWA.                            *)
(*                                                                         *)
(*   - DownloadService (src/src/services/download.ts): per-episode         *)
(*     download tasks over the episode metadata store (StorageService,     *)
(*     IndexedDB 'podcast-pwa') and the audio blob store (IndexedDB        *)
(*     'podcast-pwa-downloads').                                           *)
(*   - The service worker (src/unnamed/part_004): its message              *)
(*     handlers, its fetch listener with the four caching strategies, and  *)
(*     its install and activate events.                                    *)
(*   - RSSService.validateFeedUrl (src/src/services/rss.ts).               *)
(*   - The views' handlers that write the metadata store:                  *)
(*     PlayerView.savePlaybackPosition (src/unnamed/part_002) and the      *)
(*     removal and refresh of a subscription (SubscriptionsView.tsx).      *)
(*                                                                         *)
(* Every `await` of an async function is a scheduling point: the code up   *)
(* to the await (including the call that starts the awaited operation) is  *)
(* one atomic step, the continuation is a later step.  IndexedDB requests  *)
(* take effect in the order they are issued, so a store write is applied   *)
(* at the step that issues it.                                             *)
(***************************************************************************)
EXTENDS Integers, Sequences, FiniteSets, TLC

\* ------------------------------------------------------------------ bounds
MaxTasks == 2          \* downloadEpisode calls explored in Spec
MaxChunks == 1         \* chunks one response body delivers in Spec
MaxK == 10             \* chunks one response body delivers in SpecScenario
MaxCommands == 3       \* DOWNLOAD_EPISODE commands explored in SpecSW
MaxClients == 1        \* window clients controlled by the worker in SpecSW
MaxRequests == 2       \* fetch events explored in SpecFetch
MaxVersions == 2       \* versions of a resource the network serves
MaxUrlLen == 3         \* tokens after the origin in the urls of SpecDispatch
MaxMessages == 2       \* CLEAR_CACHE and GET_CACHE_STATUS commands explored in SpecMessage
MaxPosition == 1       \* playback positions (seconds) explored in SpecPosition

Ids == {"e1", "e2"}                      \* episode ids
SpecIds == {"e1"}                        \* episode ids the calls of Spec name
Urls == {"u1", "u2"}                     \* audio urls (service worker)
Tasks == 1..MaxTasks
Commands == 1..MaxCommands
Messages == 1..MaxMessages
NoTask == 0
NoId == "-"
NoEvent == [cb |-> NoTask, episodeId |-> NoId, progress |-> 0, status |-> "none"]

\* Episode.downloadStatus
Status == {"none", "downloading", "downloaded", "error"}

\* Episode objects a caller can pass: the record's id, any downloadStatus and
\* the playbackPosition of a record never played (the object is the caller's
\* copy, not the stored record)
Episodes(ids) == [id : ids, downloadStatus : Status, playbackPosition : {0}]

\* content-length values (0: header absent) and chunk lengths of Spec
Totals == {1}
ChunkLens == {1}
\* content-length values and chunk lengths of SpecScenario
ScenarioTotals == 0..MaxK
ScenarioLens == {1, 2}

\* ------------------------------------------------- service worker: data
\* cache names (the partitions and their generation suffix)
CACHE_NAME == "podcast-pwa-v1"
APP_SHELL_CACHE == "app-shell-v1"
AUDIO_CACHE == "audio-files-v1"
RSS_CACHE == "rss-feeds-v1"
\* caches left by a previous generation of the worker
OldCaches == {"podcast-pwa-v0", "app-shell-v0"}
CacheNames == {CACHE_NAME, APP_SHELL_CACHE, AUDIO_CACHE, RSS_CACHE} \cup OldCaches
\* the partitions whose entries cacheStore holds (mediaCache holds AUDIO_CACHE's)
StrategyCaches == {CACHE_NAME, APP_SHELL_CACHE, RSS_CACHE}

\* A string is a sequence of tokens; the substrings the code searches for are
\* tokens.  A url is its origin's tokens followed by the pathname's and, after
\* "?", the query's.
Origin == <<"https://", "x">>
\* APP_SHELL_FILES
APP_SHELL_FILES ==
    {<<"/">>, <<"/", "index.html">>, <<"/", "styles", "/", "main.css">>,
     <<"/", "js", "/", "app.js">>, <<"/", "manifest.json">>}

\* the url string of an audio url, and the audio url of an episode
\* (Episode.audioUrl): one names an .mp3 file, one has no file extension
UrlString(u) ==
    IF u = "u1" THEN Origin \o <<"/", "episode", ".mp3">>
                ELSE Origin \o <<"/", "media", "/", "episode">>
AudioUrl(i) == IF i = "e1" THEN "u1" ELSE "u2"

\* a Request: its url, the media types its accept header names, its destination
Request(url, accept, destination) ==
    [url |-> url, accept |-> accept, destination |-> destination]
NoRequest == Request(<<>>, {}, "")
\* the requests of SpecFetch
SampleRequests ==
    {Request(Origin \o <<"/", "index.html">>, {}, "document"),
     Request(Origin \o <<"/", "js", "/", "app.js">>, {}, "script"),
     Request(UrlString("u1"), {"audio"}, "audio"),
     Request(Origin \o <<"/", "feed", ".xml">>, {"xml"}, ""),
     Request(Origin \o <<"/", "logo", ".png">>, {"image"}, "image")}
\* the requests an <audio> element makes for an episode's audioUrl
PlaybackRequests(i) ==
    {Request(UrlString(AudioUrl(i)), accept, "audio") : accept \in {{}, {"audio"}}}
\* shell files requested with a query string (the pathname is the file's, the
\* url is not the key the install stored): a navigation and a script
NavRequests ==
    {Request(Origin \o <<"/", "index.html", "?", "source">>, {}, "document"),
     Request(Origin \o <<"/", "js", "/", "app.js", "?", "source">>, {}, "script")}
\* cache keys: the urls of the requests above
Keys == {q.url : q \in SampleRequests \cup NavRequests} \cup {UrlString(u) : u \in Urls}
           \cup {Origin \o file : file \in APP_SHELL_FILES}

\* a response body is a version of the resource (0: the response is not ok)
NoResponse == 0
Bodies == 1..MaxVersions
\* what respondWith settles with: a response (body 0: not ok), which is the
\* cachedResponse or the networkResponse, or an error
NoAnswer == [kind |-> "none", body |-> 0, from |-> "none", error |-> "none"]
Respond(body, from) == [kind |-> "response", body |-> body, from |-> from, error |-> "none"]
Reject(error) == [kind |-> "error", body |-> 0, from |-> "none", error |-> error]

\* the strategies' partitions with no entry, and as a successful install
\* leaves them (the shell files stored)
EmptyStore == [n \in StrategyCaches |-> [k \in Keys |-> NoResponse]]
InstalledStore ==
    [EmptyStore EXCEPT ![APP_SHELL_CACHE] =
        [k \in Keys |-> IF \E file \in APP_SHELL_FILES : k = Origin \o file
                        THEN 1 ELSE NoResponse]]

Requests == 1..MaxRequests
\* one fetch event: its position, the request, the branch taken and the
\* strategy call made, whether fetch(request) was called, the networkResponse
\* held while networkFirstStrategy opens the cache, and what respondWith got
IdleRequest == [pc |-> "idle", request |-> NoRequest, class |-> "none", strategy |-> "none",
                cacheName |-> "none", fetched |-> FALSE, networkResponse |-> 0,
                answer |-> NoAnswer]
\* the install and activate events: position, shell files fetched so far,
\* whether skipWaiting and clients.claim were called
IdleWorker == [pc |-> "idle", fetched |-> {}, skipWaiting |-> FALSE, claimed |-> FALSE]

VARIABLES
    persisted,          \* metadata store: episode id -> downloadStatus of the record
                        \* ("absent": the store has no record under the id)
    position,           \* metadata store: episode id -> playbackPosition of the record
    blob,               \* audio store: episode id -> entry present
    activeDownloads,    \* DownloadService.activeDownloads: id -> task owning the AbortController
    downloadCallbacks,  \* DownloadService.downloadCallbacks: id -> task whose onProgress is registered
    task,               \* one downloadEpisode execution per slot
    del,                \* deleteDownload executions: id -> position in the code
    delArg,             \* deleteDownload executions: id -> playbackPosition of the
                        \* Episode object passed
    player,             \* PlayerView: state.currentEpisode (the player's snapshot of
                        \* the episode) and the position of savePlaybackPosition
    library,            \* metadata store and SubscriptionsView: whether the subscription
                        \* record exists, and the removal or refresh in progress
    db,                 \* the 'podcast-pwa-downloads' database: absent, ready (it has
                        \* the 'audio' object store) or storeless (created without it)
    out,                \* the onProgress invocation made by the last step, or NoEvent
    events,             \* the onProgress invocations so far, in order (kept when recording)
    recording,          \* whether the observer keeps the whole event sequence
    swTask,             \* service worker: one handleEpisodeDownload execution per command
                        \* (second: the command arrived while its url was being downloaded)
    mediaCache,         \* service worker: keys of the AUDIO_CACHE partition
    clients,            \* service worker: number of controlled window clients
    swMsgs,             \* service worker: terminal messages posted to each client, per url
    online,             \* whether the network is reachable
    cacheNames,         \* service worker: the caches that exist (caches.keys())
    cacheStore,         \* service worker: entries of the strategies' partitions,
                        \* partition -> request url -> response stored (NoResponse: none)
    puts,               \* service worker: cache.put calls issued and not yet applied
    req,                \* service worker: one fetch event per slot
    sw,                 \* service worker: its install and activate events
    msg,                \* service worker: one CLEAR_CACHE or GET_CACHE_STATUS
                        \* execution per command, with the command's reply port
    lookup              \* the read-only call under observation (isEpisodeDownloaded,
                        \* getDownloadedEpisodeUrl, validateFeedUrl) and its result

swVars == <<swTask, mediaCache, clients, swMsgs>>
fetchVars == <<online, cacheNames, cacheStore, puts, req, sw>>
\* what DownloadService leaves alone; without the stored playbackPosition, for
\* the steps that write a record; without the object deleteDownload was passed
envCore == <<recording, swTask, mediaCache, clients, swMsgs,
             online, cacheNames, cacheStore, puts, req, sw, msg, lookup>>
envBase == <<library, envCore>>
envRest == <<delArg, player, envBase>>
envVars == <<position, delArg, player, envBase>>
vars == <<persisted, position, blob, activeDownloads, downloadCallbacks, task, del, delArg,
          player, library, db, out, events,
          recording, swTask, mediaCache, clients, swMsgs,
          online, cacheNames, cacheStore, puts, req, sw, msg, lookup>>

\* one downloadEpisode execution: its position, the episode's id, the
\* downloadStatus of the object passed (read by the guard only) and its
\* playbackPosition (written back with every status), its AbortController's
\* signal, whether onProgress was passed, and the locals
IdleTask == [pc |-> "idle", id |-> NoId, arg |-> "none", position |-> 0,
             aborted |-> FALSE, cb |-> FALSE,
             total |-> 0, received |-> 0, chunks |-> <<>>,
             err |-> "none", result |-> "pending"]

IdleCommand == [pc |-> "idle", url |-> NoId, second |-> FALSE]

\* one CLEAR_CACHE or GET_CACHE_STATUS execution: its position, the command's
\* type, payload.cacheType, whether the command carries a reply port, and the
\* messages posted on that port so far
IdleMessage == [pc |-> "idle", type |-> "none", cacheType |-> "none", hasPort |-> FALSE,
                audioFiles |-> 0, rssFeeds |-> 0, port |-> <<>>]

\* state.currentEpisode = null, and the player with no episode loaded: the
\* position of savePlaybackPosition, currentEpisode, and the updatedEpisode
\* being written
NoEpisode == [id |-> NoId, downloadStatus |-> "none", playbackPosition |-> 0]
NoPlayer == [pc |-> "idle", currentEpisode |-> NoEpisode, updatedEpisode |-> NoEpisode]

\* the subscription with no removal or refresh in progress: whether its record
\* is stored, the handler running and its position, and the episodes
\* getEpisodesBySubscription returned to it
IdleLibrary == [subscribed |-> TRUE, op |-> "none", pc |-> "idle", episodes |-> {}]

\* no call under observation
NoLookup == [pc |-> "idle", op |-> "none", arg |-> NoId, result |-> "pending"]
Lookup(pc, op, arg, result) == [pc |-> pc, op |-> op, arg |-> arg, result |-> result]

InitStores ==
    /\ persisted = [i \in Ids |-> "none"]
    /\ position = [i \in Ids |-> 0]
    /\ blob = [i \in Ids |-> FALSE]
    /\ activeDownloads = [i \in Ids |-> NoTask]
    /\ downloadCallbacks = [i \in Ids |-> NoTask]
    /\ task = [t \in Tasks |-> IdleTask]
    /\ del = [i \in Ids |-> "idle"]
    /\ delArg = [i \in Ids |-> 0]
    /\ player = NoPlayer
    /\ library = IdleLibrary
    /\ db = "absent"
    /\ out = NoEvent
    /\ events = <<>>
    /\ swTask = [c \in Commands |-> IdleCommand]
    /\ mediaCache = {}
    /\ swMsgs = [u \in Urls |-> [complete |-> 0, failed |-> 0]]
    /\ online = TRUE
    /\ puts = {}
    /\ sw = IdleWorker
    /\ msg = [c \in Messages |-> IdleMessage]

Init ==
    /\ InitStores
    /\ recording = FALSE
    /\ clients = 0
    /\ cacheNames = {}
    /\ cacheStore = EmptyStore
    /\ req = [r \in Requests |-> IdleRequest]
    /\ lookup = NoLookup

\* ------------------------------------------------------------ DownloadService

\* Math.round((receivedLength / total) * 100), total > 0
Round_Floor(receivedLength, total) == (100 * receivedLength) \div total

Round(receivedLength, total) == (200 * receivedLength + total) \div (2 * total)

\* reportProgress(episodeId, progress, status): the callback currently
\* registered under episodeId, whichever task registered it, is invoked
reportProgress(episodeId, progress, status) ==
    LET callback == downloadCallbacks[episodeId] IN
    /\ out' = IF callback # NoTask
              THEN [cb |-> callback, episodeId |-> episodeId,
                    progress |-> progress, status |-> status]
              ELSE NoEvent
    /\ events' = IF callback # NoTask /\ recording THEN Append(events, out') ELSE events

\* a step that calls no callback
Silent == out' = NoEvent /\ events' = events

\* the next free execution slot
FreeSlot(t) == task[t].pc = "idle" /\ \A u \in Tasks : u < t => task[u].pc # "idle"

\* a settled execution: its promise resolved, or rejected with the caught error;
\* its locals are gone, its AbortController keeps its state
Settled(tk, result) ==
    [IdleTask EXCEPT !.pc = "done", !.id = tk.id, !.aborted = tk.aborted, !.result = result]

\* the guard of downloadEpisode
AlreadyHandled_DownloadingOnly(episode) ==
    episode.downloadStatus = "downloading"

AlreadyHandled(episode) ==
    episode.downloadStatus = "downloading" \/ episode.downloadStatus = "downloaded"

\* downloadEpisode(episode, onProgress), up to its first await:
\* the guard on the caller's object, the bookkeeping, updateEpisode('downloading').
\* episode is the caller's Episode object: [id, downloadStatus].
downloadEpisode(t, episode, onProgress) ==
    LET i == episode.id IN
    /\ FreeSlot(t)
    /\ IF AlreadyHandled(episode)
       THEN /\ task' = [task EXCEPT ![t] = Settled([IdleTask EXCEPT !.id = i], "noop")]
            /\ UNCHANGED <<persisted, position, activeDownloads, downloadCallbacks>>
       ELSE /\ activeDownloads' = [activeDownloads EXCEPT ![i] = t]
            /\ downloadCallbacks' = IF onProgress
                                    THEN [downloadCallbacks EXCEPT ![i] = t]
                                    ELSE downloadCallbacks
            /\ persisted' = [persisted EXCEPT ![i] = "downloading"]
            /\ position' = [position EXCEPT ![i] = episode.playbackPosition]
            /\ task' = [task EXCEPT ![t] = [IdleTask EXCEPT !.pc = "awaitUpdate", !.id = i,
                                                     !.arg = episode.downloadStatus,
                                                     !.position = episode.playbackPosition,
                                                     !.cb = onProgress]]
    /\ Silent
    /\ UNCHANGED <<blob, del>>
    /\ UNCHANGED envRest
    /\ UNCHANGED db

\* the catch block up to its await: updateEpisode('error')
\* (the locals of the try block are out of scope)
Catch(t, error) ==
    /\ persisted' = [persisted EXCEPT ![task[t].id] = "error"]
    /\ position' = [position EXCEPT ![task[t].id] = task[t].position]
    /\ task' = [task EXCEPT ![t].pc = "awaitUpdateErr", ![t].err = error,
                            ![t].total = 0, ![t].received = 0, ![t].chunks = <<>>]

\* after updateEpisode('downloading'): initial progress, fetch issued
ReportInitial(t) ==
    /\ task[t].pc = "awaitUpdate"
    /\ reportProgress(task[t].id, 0, "downloading")
    /\ task' = [task EXCEPT ![t].pc = "awaitFetch", ![t].arg = "none"]
    /\ UNCHANGED <<persisted, blob, activeDownloads, downloadCallbacks, del>>
    /\ UNCHANGED envVars
    /\ UNCHANGED db

\* fetch rejects with a network error (TypeError); a fetch whose signal has
\* been aborted settles with AbortError only
FetchRejects(t) ==
    /\ task[t].pc = "awaitFetch"
    /\ ~task[t].aborted
    /\ Catch(t, "TypeError")
    /\ Silent
    /\ UNCHANGED <<blob, activeDownloads, downloadCallbacks, del>>
    /\ UNCHANGED envRest
    /\ UNCHANGED db

\* fetch rejects with AbortError: the signal has been aborted
FetchAborted(t) ==
    /\ task[t].pc = "awaitFetch"
    /\ task[t].aborted
    /\ Catch(t, "AbortError")
    /\ Silent
    /\ UNCHANGED <<blob, activeDownloads, downloadCallbacks, del>>
    /\ UNCHANGED envRest
    /\ UNCHANGED db

\* the response is not ok, or it is ok and has no body: throw new Error(...)
FetchBadResponse(t) ==
    /\ task[t].pc = "awaitFetch"
    /\ ~task[t].aborted
    /\ Catch(t, "ResponseError")
    /\ Silent
    /\ UNCHANGED <<blob, activeDownloads, downloadCallbacks, del>>
    /\ UNCHANGED envRest
    /\ UNCHANGED db

\* the response is ok: content-length parsed (0 when absent), reader taken
FetchResolves(t, totals) ==
    /\ task[t].pc = "awaitFetch"
    /\ ~task[t].aborted
    /\ online
    /\ \E contentLength \in totals :
          task' = [task EXCEPT ![t].pc = "awaitRead", ![t].total = contentLength]
    /\ Silent
    /\ UNCHANGED <<persisted, blob, activeDownloads, downloadCallbacks, del>>
    /\ UNCHANGED envVars
    /\ UNCHANGED db

\* reader.read() delivers a chunk (after an abort: one the closed stream still
\* held): the aborted check, the accounting, the progress report
ReadChunk(t, lens, maxChunks) ==
    /\ task[t].pc = "awaitRead"
    /\ Len(task[t].chunks) < maxChunks
    /\ \E len \in lens :
          IF task[t].aborted
          THEN /\ Catch(t, "Cancelled")
               /\ Silent
          ELSE LET receivedLength == task[t].received + len IN
               /\ task' = [task EXCEPT ![t].chunks = Append(@, len),
                                       ![t].received = receivedLength]
               /\ IF task[t].total > 0
                  THEN reportProgress(task[t].id, Round(receivedLength, task[t].total),
                                      "downloading")
                  ELSE Silent
               /\ UNCHANGED <<persisted, position>>
    /\ UNCHANGED <<blob, activeDownloads, downloadCallbacks, del>>
    /\ UNCHANGED envRest
    /\ UNCHANGED db

\* reader.read() rejects with a network error (TypeError); the abort errors
\* the stream with AbortError unless the body has already been received whole
ReadRejects(t) ==
    /\ task[t].pc = "awaitRead"
    /\ ~task[t].aborted
    /\ Catch(t, "TypeError")
    /\ Silent
    /\ UNCHANGED <<blob, activeDownloads, downloadCallbacks, del>>
    /\ UNCHANGED envRest
    /\ UNCHANGED db

\* reader.read() rejects with AbortError: the signal has been aborted
ReadAborted(t) ==
    /\ task[t].pc = "awaitRead"
    /\ task[t].aborted
    /\ Catch(t, "AbortError")
    /\ Silent
    /\ UNCHANGED <<blob, activeDownloads, downloadCallbacks, del>>
    /\ UNCHANGED envRest
    /\ UNCHANGED db

\* reader.read() reports done (the loop breaks before its aborted check):
\* chunks combined, storeAudioData issued.
\* indexedDB.open creates the database with its 'audio' store when there is
\* none, and the put is applied; or the open or the put is failing and the
\* request will reject; or the database exists without the 'audio' store:
\* db.transaction(['audio']) throws inside onsuccess and the promise never
\* settles.
ReadDone(t) ==
    /\ task[t].pc = "awaitRead"
    /\ IF db = "storeless"
       THEN /\ task' = [task EXCEPT ![t].pc = "hung"]
            /\ UNCHANGED <<blob, db>>
       ELSE \E stored \in BOOLEAN :
               IF stored
               THEN /\ blob' = [blob EXCEPT ![task[t].id] = TRUE]
                    /\ db' = "ready"
                    /\ task' = [task EXCEPT ![t].pc = "awaitStore"]
               ELSE /\ UNCHANGED <<blob, db>>
                    /\ task' = [task EXCEPT ![t].pc = "awaitStoreErr"]
    /\ Silent
    /\ UNCHANGED <<persisted, activeDownloads, downloadCallbacks, del>>
    /\ UNCHANGED envVars

\* storeAudioData resolved: updateEpisode('downloaded') issued
StoreResolves(t) ==
    /\ task[t].pc = "awaitStore"
    /\ persisted' = [persisted EXCEPT ![task[t].id] = "downloaded"]
    /\ position' = [position EXCEPT ![task[t].id] = task[t].position]
    /\ task' = [task EXCEPT ![t].pc = "awaitUpdateDone"]
    /\ Silent
    /\ UNCHANGED <<blob, activeDownloads, downloadCallbacks, del>>
    /\ UNCHANGED envRest
    /\ UNCHANGED db

\* storeAudioData rejected (request.error, a DOMException)
StoreRejects(t) ==
    /\ task[t].pc = "awaitStoreErr"
    /\ Catch(t, "DOMException")
    /\ Silent
    /\ UNCHANGED <<blob, activeDownloads, downloadCallbacks, del>>
    /\ UNCHANGED envRest
    /\ UNCHANGED db

\* the finally block
Finally(i) ==
    /\ activeDownloads' = [activeDownloads EXCEPT ![i] = NoTask]
    /\ downloadCallbacks' = [downloadCallbacks EXCEPT ![i] = NoTask]

\* after updateEpisode('downloaded'): completion reported, finally, return
Complete(t) ==
    /\ task[t].pc = "awaitUpdateDone"
    /\ reportProgress(task[t].id, 100, "completed")
    /\ Finally(task[t].id)
    /\ task' = [task EXCEPT ![t] = Settled(task[t], "resolved")]
    /\ UNCHANGED <<persisted, blob, del>>
    /\ UNCHANGED envVars
    /\ UNCHANGED db

\* error.name of the errors the try block raises: the fetch/read rejections
\* (TypeError, or AbortError once the signal is aborted), the store's
\* DOMException, and the Errors the code throws itself: new Error('HTTP ...'),
\* new Error('Response body is null') (ResponseError) and
\* new Error('Download cancelled') (Cancelled)
ErrorName(error) ==
    IF error \in {"ResponseError", "Cancelled"} THEN "Error" ELSE error

\* error instanceof Error && error.name !== 'AbortError'
Rethrown(error) == ErrorName(error) # "AbortError"

\* after updateEpisode('error'): error reported, `throw error` unless AbortError, finally
Fail(t) ==
    /\ task[t].pc = "awaitUpdateErr"
    /\ reportProgress(task[t].id, 0, "error")
    /\ Finally(task[t].id)
    /\ task' = [task EXCEPT ![t] = Settled(task[t], IF Rethrown(task[t].err)
                                                     THEN "rejected" ELSE "resolved")]
    /\ UNCHANGED <<persisted, blob, del>>
    /\ UNCHANGED envVars
    /\ UNCHANGED db

\* cancelDownload(episodeId)
cancelDownload_KeepsCallback(i) ==
    /\ LET controller == activeDownloads[i] IN
       IF controller # NoTask
       THEN /\ task' = [task EXCEPT ![controller].aborted = TRUE]
            /\ activeDownloads' = [activeDownloads EXCEPT ![i] = NoTask]
            /\ UNCHANGED downloadCallbacks
       ELSE UNCHANGED <<task, activeDownloads, downloadCallbacks>>
    /\ Silent
    /\ UNCHANGED <<persisted, blob, del>>
    /\ UNCHANGED envVars
    /\ UNCHANGED db

cancelDownload(i) ==
    /\ LET controller == activeDownloads[i] IN
       IF controller # NoTask
       THEN /\ task' = [task EXCEPT ![controller].aborted = TRUE]
            /\ activeDownloads' = [activeDownloads EXCEPT ![i] = NoTask]
            /\ downloadCallbacks' = [downloadCallbacks EXCEPT ![i] = NoTask]
       ELSE UNCHANGED <<task, activeDownloads, downloadCallbacks>>
    /\ Silent
    /\ UNCHANGED <<persisted, blob, del>>
    /\ UNCHANGED envVars
    /\ UNCHANGED db

\* the Episode object the episode list passes to deleteDownload: the list
\* offers the delete for a 'downloaded' episode
Downloaded(i) == [id |-> i, downloadStatus |-> "downloaded", playbackPosition |-> 0]

\* deleteDownload(episode) up to its first await: deleteAudioData issued.
\* deleteAudioData opens the database with no onupgradeneeded handler: when
\* the 'audio' store exists the delete is applied; otherwise the database is
\* (or stays) created without the store, db.transaction(['audio']) throws
\* inside onsuccess and the promise never settles (the call hangs).
deleteDownload(episode) ==
    LET i == episode.id IN
    /\ del[i] \in {"idle", "hung"}
    /\ delArg' = [delArg EXCEPT ![i] = episode.playbackPosition]
    /\ IF db = "ready"
       THEN /\ blob' = [blob EXCEPT ![i] = FALSE]
            /\ del' = [del EXCEPT ![i] = "awaitDelete"]
            /\ UNCHANGED db
       ELSE /\ db' = "storeless"
            /\ del' = [del EXCEPT ![i] = "hung"]
            /\ UNCHANGED blob
    /\ Silent
    /\ UNCHANGED <<persisted, activeDownloads, downloadCallbacks, task>>
    /\ UNCHANGED <<position, player, envBase>>

\* deleteAudioData resolved: updateEpisode('none'), return
DeleteResolves(i) ==
    /\ del[i] = "awaitDelete"
    /\ persisted' = [persisted EXCEPT ![i] = "none"]
    /\ position' = [position EXCEPT ![i] = delArg[i]]
    /\ del' = [del EXCEPT ![i] = "idle"]
    /\ Silent
    /\ UNCHANGED <<blob, activeDownloads, downloadCallbacks, task>>
    /\ UNCHANGED envRest
    /\ UNCHANGED db

TaskStep(t, totals, lens, maxChunks) ==
    \/ ReportInitial(t)
    \/ FetchRejects(t)
    \/ FetchAborted(t)
    \/ FetchBadResponse(t)
    \/ FetchResolves(t, totals)
    \/ ReadChunk(t, lens, maxChunks)
    \/ ReadRejects(t)
    \/ ReadAborted(t)
    \/ ReadDone(t)
    \/ StoreResolves(t)
    \/ StoreRejects(t)
    \/ Complete(t)
    \/ Fail(t)

Next ==
    \/ \E t \in Tasks, episode \in Episodes(SpecIds), onProgress \in BOOLEAN :
          downloadEpisode(t, episode, onProgress)
    \/ \E t \in Tasks : TaskStep(t, Totals, ChunkLens, MaxChunks)
    \/ \E i \in SpecIds : cancelDownload(i)
    \/ \E i \in SpecIds : deleteDownload(Downloaded(i))
    \/ \E i \in SpecIds : DeleteResolves(i)

Spec == Init /\ [][Next]_vars

\* ------------------------------------------------- one download, observed whole
\* One downloadEpisode call for one episode, with response bodies of up to
\* MaxK chunks, and the whole sequence of onProgress invocations recorded.

InitScenario ==
    /\ InitStores
    /\ recording = TRUE
    /\ clients = 0
    /\ cacheNames = {}
    /\ cacheStore = EmptyStore
    /\ req = [r \in Requests |-> IdleRequest]
    /\ lookup = NoLookup

NextScenario ==
    \/ \E onProgress \in BOOLEAN :
          downloadEpisode(1, [id |-> "e1", downloadStatus |-> "none", playbackPosition |-> 0], onProgress)
    \/ TaskStep(1, ScenarioTotals, ScenarioLens, MaxK)
    \/ cancelDownload("e1")

SpecScenario == InitScenario /\ [][NextScenario]_vars

\* what the lookups leave alone
lookupRest == <<persisted, position, blob, activeDownloads, downloadCallbacks, task, del,
                delArg, player, library, out, events,
                recording, swTask, mediaCache, clients, swMsgs,
                online, cacheNames, cacheStore, puts, req, sw, msg>>

\* getAudioData(episodeId) issued by operation op: indexedDB.open creates the
\* database with its 'audio' store when there is none; or the open or the get
\* is failing and the request will reject; or the database exists without the
\* 'audio' store: db.transaction(['audio']) throws inside onsuccess and the
\* promise never settles.
getAudioData(op, episodeId) ==
    /\ lookup.pc \in {"idle", "done"}
    /\ IF db = "storeless"
       THEN /\ lookup' = Lookup("hung", op, episodeId, "pending")
            /\ UNCHANGED db
       ELSE \E opened \in BOOLEAN :
               IF opened
               THEN /\ lookup' = Lookup("awaitGet", op, episodeId, "pending")
                    /\ db' = "ready"
               ELSE /\ lookup' = Lookup("awaitGetErr", op, episodeId, "pending")
                    /\ UNCHANGED db
    /\ UNCHANGED lookupRest

\* isEpisodeDownloaded(episodeId) up to its await
isEpisodeDownloaded(episodeId) == getAudioData("isEpisodeDownloaded", episodeId)

\* getDownloadedEpisodeUrl(episodeId) up to its await
getDownloadedEpisodeUrl(episodeId) == getAudioData("getDownloadedEpisodeUrl", episodeId)

\* getAudioData resolved with result.audioData or null: isEpisodeDownloaded
\* returns audioData !== null, getDownloadedEpisodeUrl returns
\* URL.createObjectURL(blob) or null
GetResolves ==
    /\ lookup.pc = "awaitGet"
    /\ LET audioData == blob[lookup.arg] IN
       lookup' = [lookup EXCEPT !.pc = "done",
                                !.result = IF lookup.op = "isEpisodeDownloaded"
                                           THEN IF audioData THEN "true" ELSE "false"
                                           ELSE IF audioData THEN "handle" ELSE "null"]
    /\ UNCHANGED db
    /\ UNCHANGED lookupRest

\* getAudioData rejected: the catch logs and returns false, or null
GetRejects ==
    /\ lookup.pc = "awaitGetErr"
    /\ lookup' = [lookup EXCEPT !.pc = "done",
                                !.result = IF lookup.op = "isEpisodeDownloaded"
                                           THEN "false" ELSE "null"]
    /\ UNCHANGED db
    /\ UNCHANGED lookupRest

\* One episode is downloaded and deleted while lookups are made.
NextLookup ==
    \/ downloadEpisode(1, [id |-> "e1", downloadStatus |-> "none", playbackPosition |-> 0], TRUE)
    \/ TaskStep(1, Totals, ChunkLens, MaxChunks)
    \/ cancelDownload("e1")
    \/ deleteDownload(Downloaded("e1"))
    \/ DeleteResolves("e1")
    \/ \E i \in Ids : isEpisodeDownloaded(i)
    \/ \E i \in Ids : getDownloadedEpisodeUrl(i)
    \/ GetResolves
    \/ GetRejects

SpecLookup == Init /\ [][NextLookup]_vars

\* Spec with every operation a download awaits eventually returning or
\* failing: a task that can take a step eventually takes one.
SpecSettle ==
    /\ Init /\ [][Next]_vars
    /\ \A t \in Tasks : WF_vars(TaskStep(t, Totals, ChunkLens, MaxChunks))

\* Two episodes: each id is downloaded at most once, 'e1' may be cancelled
\* and deleted while 'e2' downloads.
NextPair ==
    \/ \E t \in Tasks, i \in Ids, onProgress \in BOOLEAN :
          /\ \A u \in Tasks : task[u].id # i
          /\ downloadEpisode(t, [id |-> i, downloadStatus |-> "none", playbackPosition |-> 0], onProgress)
    \/ \E t \in Tasks : TaskStep(t, Totals, ChunkLens, MaxChunks)
    \/ cancelDownload("e1")
    \/ deleteDownload(Downloaded("e1"))
    \/ DeleteResolves("e1")

SpecPair == Init /\ [][NextPair]_vars

\* The page is closed, or the process is killed, and the app is started again:
\* the module is evaluated anew, `new DownloadService()` has two empty maps,
\* every execution in progress is gone with the old page.  The two IndexedDB
\* databases keep what was written.
restart ==
    /\ activeDownloads' = [i \in Ids |-> NoTask]
    /\ downloadCallbacks' = [i \in Ids |-> NoTask]
    /\ task' = [t \in Tasks |-> IdleTask]
    /\ del' = [i \in Ids |-> "idle"]
    /\ delArg' = [i \in Ids |-> 0]
    /\ player' = NoPlayer
    /\ library' = [IdleLibrary EXCEPT !.subscribed = library.subscribed]
    /\ Silent
    /\ UNCHANGED <<persisted, position, blob, db>>
    /\ UNCHANGED envCore

\* Spec with restarts of the app
NextRestart ==
    \/ Next
    \/ restart

SpecRestart == Init /\ [][NextRestart]_vars

\* ------------------------------------------------------------------ views

\* what the views' handlers leave alone
viewRest == <<blob, activeDownloads, downloadCallbacks, task, del, delArg, db, out, events,
              envBase>>

\* the Episode object the episode list holds right after
\* loadEpisodesForSubscription: the stored record
StoredEpisode(i) ==
    [id |-> i, downloadStatus |-> persisted[i], playbackPosition |-> position[i]]

\* SubscriptionsView.handlePlayEpisode(episode): the object becomes the
\* player's currentEpisode
handlePlayEpisode(episode) ==
    /\ player' = [player EXCEPT !.currentEpisode = episode]
    /\ UNCHANGED <<persisted, position>>
    /\ UNCHANGED viewRest

\* positions the audio element reports
Positions == 0..MaxPosition

\* PlayerView.savePlaybackPosition(position) up to its await: the snapshot
\* with the new playbackPosition is written over the stored record.  The calls
\* are seconds apart: one is in progress at a time.
savePlaybackPosition(pos) ==
    /\ player.pc = "idle"
    /\ player.currentEpisode # NoEpisode
    /\ LET updatedEpisode == [player.currentEpisode EXCEPT !.playbackPosition = pos] IN
       /\ persisted' = [persisted EXCEPT ![updatedEpisode.id] = updatedEpisode.downloadStatus]
       /\ position' = [position EXCEPT ![updatedEpisode.id] = pos]
       /\ player' = [player EXCEPT !.pc = "awaitUpdate", !.updatedEpisode = updatedEpisode]
    /\ UNCHANGED viewRest

\* updateEpisode resolved: appState's currentEpisode becomes updatedEpisode
SaveResolves ==
    /\ player.pc = "awaitUpdate"
    /\ player' = [pc |-> "idle", currentEpisode |-> player.updatedEpisode,
                  updatedEpisode |-> NoEpisode]
    /\ UNCHANGED <<persisted, position>>
    /\ UNCHANGED viewRest

\* An episode is played while it is downloaded and deleted from the episode
\* list, every handler being passed the record as the list last loaded it.
NextPosition ==
    \/ \E i \in SpecIds : handlePlayEpisode(StoredEpisode(i))
    \/ \E pos \in Positions : savePlaybackPosition(pos)
    \/ SaveResolves
    \/ \E t \in Tasks, i \in SpecIds : downloadEpisode(t, StoredEpisode(i), TRUE)
    \/ \E t \in Tasks : TaskStep(t, Totals, ChunkLens, MaxChunks)
    \/ \E i \in SpecIds : cancelDownload(i)
    \/ \E i \in SpecIds : persisted[i] = "downloaded" /\ deleteDownload(StoredEpisode(i))
    \/ \E i \in SpecIds : DeleteResolves(i)

SpecPosition == Init /\ [][NextPosition]_vars

\* what the subscription handlers leave alone
libraryRest == <<blob, activeDownloads, downloadCallbacks, task, del, delArg, player, db,
                 out, events, envCore>>

\* getEpisodesBySubscription(subscriptionId): the records of the episodes
\* store (every episode is the subscription's)
getEpisodesBySubscription == {i \in Ids : persisted[i] # "absent"}

\* ids crypto.randomUUID() can return: ids nothing has used
FreshIds ==
    {i \in Ids : /\ persisted[i] = "absent" /\ ~blob[i]
                 /\ activeDownloads[i] = NoTask /\ downloadCallbacks[i] = NoTask
                 /\ \A t \in Tasks : task[t].id # i
                 /\ del[i] = "idle"
                 /\ player.currentEpisode.id # i /\ player.updatedEpisode.id # i}

\* deleteEpisodesBySubscription(subscriptionId) up to its first await
deleteEpisodesBySubscription(op) ==
    library' = [library EXCEPT !.op = op, !.pc = "awaitEpisodes",
                               !.episodes = getEpisodesBySubscription]

\* SubscriptionsView.handleRemoveSubscription(id), confirmed:
\* removeSubscription(id) up to its first await
removeSubscription ==
    /\ library.op = "none"
    /\ library.subscribed
    /\ deleteEpisodesBySubscription("remove")
    /\ UNCHANGED <<persisted, position>>
    /\ UNCHANGED libraryRest

\* deleteEpisodesBySubscription: the episodes were read; one transaction
\* deletes the record of each
EpisodesRead ==
    /\ library.pc = "awaitEpisodes"
    /\ persisted' = [i \in Ids |-> IF i \in library.episodes THEN "absent" ELSE persisted[i]]
    /\ position' = [i \in Ids |-> IF i \in library.episodes THEN 0 ELSE position[i]]
    /\ library' = [library EXCEPT !.pc = "awaitDeleted", !.episodes = {}]
    /\ UNCHANGED libraryRest

\* removeSubscription: the episodes are deleted; the subscription record is
\* deleted, and the handler ends
RemoveDeleted ==
    /\ library.op = "remove" /\ library.pc = "awaitDeleted"
    /\ library' = [IdleLibrary EXCEPT !.subscribed = FALSE]
    /\ UNCHANGED <<persisted, position>>
    /\ UNCHANGED libraryRest

\* SubscriptionsView.handleRefreshEpisodes(subscription) up to its first
\* await: rssService.fetchFeed
handleRefreshEpisodes ==
    /\ library.op = "none"
    /\ library.subscribed
    /\ library' = [library EXCEPT !.op = "refresh", !.pc = "awaitFeed"]
    /\ UNCHANGED <<persisted, position>>
    /\ UNCHANGED libraryRest

\* fetchFeed rejected: the catch alerts, the handler ends
RefreshFeedRejects ==
    /\ library.op = "refresh" /\ library.pc = "awaitFeed"
    /\ library' = [library EXCEPT !.op = "none", !.pc = "idle"]
    /\ UNCHANGED <<persisted, position>>
    /\ UNCHANGED libraryRest

\* fetchFeed resolved: updateSubscription puts the subscription record
RefreshFeedResolves ==
    /\ library.op = "refresh" /\ library.pc = "awaitFeed"
    /\ library' = [library EXCEPT !.pc = "awaitSubscription", !.subscribed = TRUE]
    /\ UNCHANGED <<persisted, position>>
    /\ UNCHANGED libraryRest

\* updateSubscription resolved: deleteEpisodesBySubscription up to its first await
RefreshSubscriptionUpdated ==
    /\ library.op = "refresh" /\ library.pc = "awaitSubscription"
    /\ deleteEpisodesBySubscription("refresh")
    /\ UNCHANGED <<persisted, position>>
    /\ UNCHANGED libraryRest

\* handleRefreshEpisodes: the episodes are deleted; fetchAndStoreEpisodes
\* gives every episode of the feed a new id and stores it with
\* downloadStatus 'none' and playbackPosition 0
fetchAndStoreEpisodes ==
    /\ library.op = "refresh" /\ library.pc = "awaitDeleted"
    /\ \E episodes \in SUBSET FreshIds :
          /\ persisted' = [i \in Ids |-> IF i \in episodes THEN "none" ELSE persisted[i]]
          /\ position' = [i \in Ids |-> IF i \in episodes THEN 0 ELSE position[i]]
    /\ library' = [library EXCEPT !.pc = "awaitAdded"]
    /\ UNCHANGED libraryRest

\* addEpisodes resolved: the handler ends
RefreshAdded ==
    /\ library.op = "refresh" /\ library.pc = "awaitAdded"
    /\ library' = [library EXCEPT !.op = "none", !.pc = "idle"]
    /\ UNCHANGED <<persisted, position>>
    /\ UNCHANGED libraryRest

\* Episodes are downloaded from the episode list while the subscription is
\* refreshed or removed.
NextLibrary ==
    \/ \E t \in Tasks, i \in getEpisodesBySubscription :
          downloadEpisode(t, StoredEpisode(i), TRUE)
    \/ \E t \in Tasks : TaskStep(t, Totals, ChunkLens, MaxChunks)
    \/ \E i \in Ids : cancelDownload(i)
    \/ removeSubscription
    \/ EpisodesRead
    \/ RemoveDeleted
    \/ handleRefreshEpisodes
    \/ RefreshFeedRejects
    \/ RefreshFeedResolves
    \/ RefreshSubscriptionUpdated
    \/ fetchAndStoreEpisodes
    \/ RefreshAdded

SpecLibrary == Init /\ [][NextLibrary]_vars

\* ------------------------------------------------------------ service worker

svcVars == <<persisted, position, blob, activeDownloads, downloadCallbacks, task, del,
             delArg, player, library, db, out, events,
             recording, lookup>>

\* the next free command slot
FreeCommand(c) == swTask[c].pc = "idle" /\ \A d \in Commands : d < c => swTask[d].pc # "idle"

InFlight(u) == \E c \in Commands : swTask[c].url = u /\ swTask[c].pc \notin {"idle", "done"}

\* self.clients.matchAll().then(clients => clients.forEach(client => client.postMessage(...)))
postToClients(u, type) ==
    swMsgs' = IF clients > 0 THEN [swMsgs EXCEPT ![u][type] = @ + 1] ELSE swMsgs

\* message listener, case 'DOWNLOAD_EPISODE': handleEpisodeDownload(payload) up to
\* its first await: fetch(audioUrl) issued
handleEpisodeDownload(c, audioUrl) ==
    /\ FreeCommand(c)
    /\ swTask' = [swTask EXCEPT ![c] = [pc |-> "awaitFetch", url |-> audioUrl,
                                        second |-> InFlight(audioUrl)]]
    /\ UNCHANGED <<mediaCache, clients, swMsgs>>
    /\ UNCHANGED svcVars
    /\ UNCHANGED <<fetchVars, msg>>

\* fetch resolved with an ok response: caches.open(AUDIO_CACHE), cache.put issued
SwFetchResolves(c) ==
    /\ swTask[c].pc = "awaitFetch"
    /\ online
    /\ swTask' = [swTask EXCEPT ![c].pc = "awaitPut"]
    /\ UNCHANGED <<mediaCache, clients, swMsgs>>
    /\ UNCHANGED svcVars
    /\ UNCHANGED <<fetchVars, msg>>

\* fetch rejected, or the response is not ok: catch, clients.matchAll() issued
SwFetchFails(c) ==
    /\ swTask[c].pc = "awaitFetch"
    /\ swTask' = [swTask EXCEPT ![c].pc = "awaitClientsErr"]
    /\ UNCHANGED <<mediaCache, clients, swMsgs>>
    /\ UNCHANGED svcVars
    /\ UNCHANGED <<fetchVars, msg>>

\* cache.put resolved: the entry is stored, clients.matchAll() issued
SwPutResolves(c) ==
    /\ swTask[c].pc = "awaitPut"
    /\ mediaCache' = mediaCache \cup {swTask[c].url}
    /\ swTask' = [swTask EXCEPT ![c].pc = "awaitClients"]
    /\ UNCHANGED <<clients, swMsgs>>
    /\ UNCHANGED svcVars
    /\ UNCHANGED <<fetchVars, msg>>

\* cache.put rejected: catch, clients.matchAll() issued
SwPutRejects(c) ==
    /\ swTask[c].pc = "awaitPut"
    /\ swTask' = [swTask EXCEPT ![c].pc = "awaitClientsErr"]
    /\ UNCHANGED <<mediaCache, clients, swMsgs>>
    /\ UNCHANGED svcVars
    /\ UNCHANGED <<fetchVars, msg>>

\* matchAll resolved: DOWNLOAD_COMPLETE posted to every client
SwPostComplete(c) ==
    /\ swTask[c].pc = "awaitClients"
    /\ postToClients(swTask[c].url, "complete")
    /\ swTask' = [swTask EXCEPT ![c].pc = "done"]
    /\ UNCHANGED <<mediaCache, clients>>
    /\ UNCHANGED svcVars
    /\ UNCHANGED <<fetchVars, msg>>

\* matchAll resolved: DOWNLOAD_FAILED posted to every client
SwPostFailed(c) ==
    /\ swTask[c].pc = "awaitClientsErr"
    /\ postToClients(swTask[c].url, "failed")
    /\ swTask' = [swTask EXCEPT ![c].pc = "done"]
    /\ UNCHANGED <<mediaCache, clients>>
    /\ UNCHANGED svcVars
    /\ UNCHANGED <<fetchVars, msg>>

InitSW ==
    /\ InitStores
    /\ recording = FALSE
    /\ clients \in 0..MaxClients
    /\ cacheNames = {}
    /\ cacheStore = EmptyStore
    /\ req = [r \in Requests |-> IdleRequest]
    /\ lookup = NoLookup

NextSW ==
    \/ \E c \in Commands, audioUrl \in Urls : handleEpisodeDownload(c, audioUrl)
    \/ \E c \in Commands : SwFetchResolves(c)
    \/ \E c \in Commands : SwFetchFails(c)
    \/ \E c \in Commands : SwPutResolves(c)
    \/ \E c \in Commands : SwPutRejects(c)
    \/ \E c \in Commands : SwPostComplete(c)
    \/ \E c \in Commands : SwPostFailed(c)

SpecSW == InitSW /\ [][NextSW]_vars

\* ------------------------------------------------ service worker: fetch listener

\* url.pathname: from the first "/" after the origin up to the query
FirstIndex(str, token) ==
    IF \E n \in 1..Len(str) : str[n] = token
    THEN CHOOSE n \in 1..Len(str) : str[n] = token /\ \A m \in 1..(n - 1) : str[m] # token
    ELSE Len(str) + 1
Pathname(url) ==
    LET slash == FirstIndex(url, "/")
        query == FirstIndex(url, "?")
    IN IF slash < query THEN SubSeq(url, slash, query - 1) ELSE <<"/">>

\* String.prototype.includes, for a one-token substring
Includes(str, token) == \E n \in 1..Len(str) : str[n] = token

\* file.substring(1)
Substring1(file) == SubSeq(file, 2, Len(file))

isAppShellRequest(request) ==
    \E file \in APP_SHELL_FILES :
        Pathname(request.url) = file \/ Pathname(request.url) = Substring1(file)

isAudioRequest(request) ==
    \/ Includes(request.url, ".mp3")
    \/ Includes(request.url, ".m4a")
    \/ Includes(request.url, ".ogg")
    \/ "audio" \in request.accept

isRSSRequest(request) ==
    \/ Includes(request.url, "rss")
    \/ Includes(request.url, "feed")
    \/ "xml" \in request.accept

isImageRequest(request) == "image" \in request.accept

\* the branch of the fetch listener a request takes
classify(request) ==
    IF isAppShellRequest(request) THEN "shell"
    ELSE IF isAudioRequest(request) THEN "media"
    ELSE IF isRSSRequest(request) THEN "feed"
    ELSE IF isImageRequest(request) THEN "image"
    ELSE "other"

\* the strategy call of each branch
Dispatch_ImageNetworkFirst(class) ==
    CASE class = "shell" -> [strategy |-> "cacheFirst", cacheName |-> APP_SHELL_CACHE]
      [] class = "media" -> [strategy |-> "cacheOnly", cacheName |-> AUDIO_CACHE]
      [] class = "feed" -> [strategy |-> "networkFirst", cacheName |-> RSS_CACHE]
      [] class = "image" -> [strategy |-> "networkFirst", cacheName |-> CACHE_NAME]
      [] OTHER -> [strategy |-> "networkFirst", cacheName |-> CACHE_NAME]

Dispatch_MediaNetworkFirst(class) ==
    CASE class = "shell" -> [strategy |-> "cacheFirst", cacheName |-> APP_SHELL_CACHE]
      [] class = "media" -> [strategy |-> "networkFirst", cacheName |-> AUDIO_CACHE]
      [] class = "feed" -> [strategy |-> "networkFirst", cacheName |-> RSS_CACHE]
      [] class = "image" -> [strategy |-> "staleWhileRevalidate", cacheName |-> CACHE_NAME]
      [] OTHER -> [strategy |-> "networkFirst", cacheName |-> CACHE_NAME]

Dispatch(class) ==
    CASE class = "shell" -> [strategy |-> "cacheFirst", cacheName |-> APP_SHELL_CACHE]
      [] class = "media" -> [strategy |-> "cacheOnly", cacheName |-> AUDIO_CACHE]
      [] class = "feed" -> [strategy |-> "networkFirst", cacheName |-> RSS_CACHE]
      [] class = "image" -> [strategy |-> "staleWhileRevalidate", cacheName |-> CACHE_NAME]
      [] OTHER -> [strategy |-> "networkFirst", cacheName |-> CACHE_NAME]

\* what the fetch actions leave alone
restVars == <<svcVars, swTask, clients, swMsgs, sw, msg>>

\* the next free fetch event slot
FreeRequest(r) == req[r].pc = "idle" /\ \A q \in Requests : q < r => req[q].pc # "idle"

\* cache.match(request) on the partition cacheName: the body stored under the
\* request's url, or NoResponse
AudioBody == 1
cacheMatch(cacheName, url) ==
    IF cacheName = AUDIO_CACHE
    THEN IF \E u \in mediaCache : UrlString(u) = url THEN AudioBody ELSE NoResponse
    ELSE cacheStore[cacheName][url]

\* cache.put(request, response.clone()), not awaited: the write is pending
cachePut(cacheName, url, body) ==
    puts' = puts \cup {[cacheName |-> cacheName, url |-> url, body |-> body]}

\* a pending cache.put is applied: insertion overwrites
PutApplied ==
    \E put \in puts :
        /\ puts' = puts \ {put}
        /\ IF put.cacheName = AUDIO_CACHE
           THEN /\ mediaCache' = mediaCache \cup {u \in Urls : UrlString(u) = put.url}
                /\ UNCHANGED cacheStore
           ELSE /\ cacheStore' = [cacheStore EXCEPT ![put.cacheName][put.url] = put.body]
                /\ UNCHANGED mediaCache
        /\ UNCHANGED <<online, cacheNames, req>>
        /\ UNCHANGED restVars

\* the fetch listener: the branch's strategy is called and runs up to its first
\* await: caches.open(cacheName) (which creates the cache), or fetch(request)
\* for networkFirstStrategy
onFetch(r, request) ==
    LET class == classify(request)
        call == Dispatch(class)
    IN /\ FreeRequest(r)
       /\ req' = [req EXCEPT ![r] =
                    [pc |-> IF call.strategy = "networkFirst" THEN "awaitFetch" ELSE "awaitMatch",
                     request |-> request, class |-> class, strategy |-> call.strategy,
                     cacheName |-> call.cacheName,
                     fetched |-> call.strategy = "networkFirst", networkResponse |-> 0,
                     answer |-> NoAnswer]]
       /\ cacheNames' = IF call.strategy = "networkFirst"
                        THEN cacheNames ELSE cacheNames \cup {call.cacheName}
       /\ UNCHANGED <<online, cacheStore, puts, mediaCache>>
       /\ UNCHANGED restVars

\* the request's fetch event is in strategy `strategy` at position pc
At(r, strategy, pc) == req[r].strategy = strategy /\ req[r].pc = pc

\* respondWith's promise settles and the strategy is over
Answer(r, answer) == [req[r] EXCEPT !.pc = "done", !.answer = answer, !.networkResponse = 0]

\* '/index.html' resolved against the worker's origin
IndexUrl == Origin \o <<"/", "index.html">>

\* bodies a resolved fetch can carry (NoResponse: the response is not ok)
NetworkBodies == {NoResponse} \cup Bodies

\* cacheFirstStrategy: cache.match resolved; a hit is returned, a miss calls fetch
CacheFirstMatch(r) ==
    /\ At(r, "cacheFirst", "awaitMatch")
    /\ LET cachedResponse == cacheMatch(req[r].cacheName, req[r].request.url) IN
       req' = [req EXCEPT ![r] =
                 IF cachedResponse # NoResponse
                 THEN Answer(r, Respond(cachedResponse, "cache"))
                 ELSE [req[r] EXCEPT !.pc = "awaitFetch", !.fetched = TRUE]]
    /\ UNCHANGED <<online, cacheNames, cacheStore, puts, mediaCache>>
    /\ UNCHANGED restVars

\* cacheFirstStrategy: fetch resolved; an ok response is put, the response returned
CacheFirstFetchResolves_NoPut(r) ==
    /\ At(r, "cacheFirst", "awaitFetch")
    /\ online
    /\ \E networkResponse \in NetworkBodies :
          req' = [req EXCEPT ![r] = Answer(r, Respond(networkResponse, "network"))]
    /\ UNCHANGED <<online, cacheNames, cacheStore, puts, mediaCache>>
    /\ UNCHANGED restVars

CacheFirstFetchResolves(r) ==
    /\ At(r, "cacheFirst", "awaitFetch")
    /\ online
    /\ \E networkResponse \in NetworkBodies :
          /\ IF networkResponse # NoResponse
             THEN cachePut(req[r].cacheName, req[r].request.url, networkResponse)
             ELSE UNCHANGED puts
          /\ req' = [req EXCEPT ![r] = Answer(r, Respond(networkResponse, "network"))]
    /\ UNCHANGED <<online, cacheNames, cacheStore, mediaCache>>
    /\ UNCHANGED restVars

\* cacheFirstStrategy: fetch rejected; a document request falls back to
\* '/index.html' of APP_SHELL_CACHE, any other rethrows
CacheFirstFetchRejects_NoFallback(r) ==
    /\ At(r, "cacheFirst", "awaitFetch")
    /\ ~online
    /\ req' = [req EXCEPT ![r] = Answer(r, Reject("TypeError"))]
    /\ UNCHANGED <<online, cacheNames, cacheStore, puts, mediaCache>>
    /\ UNCHANGED restVars

CacheFirstFetchRejects(r) ==
    /\ At(r, "cacheFirst", "awaitFetch")
    /\ ~online
    /\ IF req[r].request.destination = "document"
       THEN /\ req' = [req EXCEPT ![r].pc = "awaitFallback"]
            /\ cacheNames' = cacheNames \cup {APP_SHELL_CACHE}
       ELSE /\ req' = [req EXCEPT ![r] = Answer(r, Reject("TypeError"))]
            /\ UNCHANGED cacheNames
    /\ UNCHANGED <<online, cacheStore, puts, mediaCache>>
    /\ UNCHANGED restVars

\* cacheFirstStrategy: the fallback's cache.match('/index.html') resolved
\* (with undefined when there is no entry)
CacheFirstFallback(r) ==
    /\ At(r, "cacheFirst", "awaitFallback")
    /\ LET cachedResponse == cacheMatch(APP_SHELL_CACHE, IndexUrl) IN
       req' = [req EXCEPT ![r] = Answer(r, IF cachedResponse # NoResponse
                                            THEN Respond(cachedResponse, "cache")
                                            ELSE Reject("undefined"))]
    /\ UNCHANGED <<online, cacheNames, cacheStore, puts, mediaCache>>
    /\ UNCHANGED restVars

\* networkFirstStrategy: fetch resolved; an ok response waits for caches.open,
\* any other is returned
NetworkFirstFetchResolves(r) ==
    /\ At(r, "networkFirst", "awaitFetch")
    /\ online
    /\ \E networkResponse \in NetworkBodies :
          IF networkResponse # NoResponse
          THEN /\ req' = [req EXCEPT ![r].pc = "awaitOpen",
                                     ![r].networkResponse = networkResponse]
               /\ cacheNames' = cacheNames \cup {req[r].cacheName}
          ELSE /\ req' = [req EXCEPT ![r] = Answer(r, Respond(networkResponse, "network"))]
               /\ UNCHANGED cacheNames
    /\ UNCHANGED <<online, cacheStore, puts, mediaCache>>
    /\ UNCHANGED restVars

\* networkFirstStrategy: caches.open resolved; the response is put and returned
NetworkFirstStore(r) ==
    /\ At(r, "networkFirst", "awaitOpen")
    /\ cachePut(req[r].cacheName, req[r].request.url, req[r].networkResponse)
    /\ req' = [req EXCEPT ![r] = Answer(r, Respond(req[r].networkResponse, "network"))]
    /\ UNCHANGED <<online, cacheNames, cacheStore, mediaCache>>
    /\ UNCHANGED restVars

\* networkFirstStrategy: fetch rejected; catch: caches.open, cache.match issued
NetworkFirstFetchRejects(r) ==
    /\ At(r, "networkFirst", "awaitFetch")
    /\ ~online
    /\ req' = [req EXCEPT ![r].pc = "awaitMatch"]
    /\ cacheNames' = cacheNames \cup {req[r].cacheName}
    /\ UNCHANGED <<online, cacheStore, puts, mediaCache>>
    /\ UNCHANGED restVars

\* networkFirstStrategy: the catch block's cache.match resolved; a hit is
\* returned, a miss rethrows the fetch error
NetworkFirstMatch_Rethrows(r) ==
    /\ At(r, "networkFirst", "awaitMatch")
    /\ req' = [req EXCEPT ![r] = Answer(r, Reject("TypeError"))]
    /\ UNCHANGED <<online, cacheNames, cacheStore, puts, mediaCache>>
    /\ UNCHANGED restVars

NetworkFirstMatch(r) ==
    /\ At(r, "networkFirst", "awaitMatch")
    /\ LET cachedResponse == cacheMatch(req[r].cacheName, req[r].request.url) IN
       req' = [req EXCEPT ![r] = Answer(r, IF cachedResponse # NoResponse
                                            THEN Respond(cachedResponse, "cache")
                                            ELSE Reject("TypeError"))]
    /\ UNCHANGED <<online, cacheNames, cacheStore, puts, mediaCache>>
    /\ UNCHANGED restVars

\* cacheOnlyStrategy: cache.match resolved; a hit is returned, a miss throws
\* new Error('Audio file not downloaded')
CacheOnlyMatch_FetchOnMiss(r) ==
    /\ At(r, "cacheOnly", "awaitMatch")
    /\ LET cachedResponse == cacheMatch(req[r].cacheName, req[r].request.url) IN
       req' = [req EXCEPT ![r] =
                 IF cachedResponse # NoResponse
                 THEN Answer(r, Respond(cachedResponse, "cache"))
                 ELSE [Answer(r, Respond(NoResponse, "network")) EXCEPT !.fetched = TRUE]]
    /\ UNCHANGED <<online, cacheNames, cacheStore, puts, mediaCache>>
    /\ UNCHANGED restVars

CacheOnlyMatch(r) ==
    /\ At(r, "cacheOnly", "awaitMatch")
    /\ LET cachedResponse == cacheMatch(req[r].cacheName, req[r].request.url) IN
       req' = [req EXCEPT ![r] = Answer(r, IF cachedResponse # NoResponse
                                            THEN Respond(cachedResponse, "cache")
                                            ELSE Reject("Audio file not downloaded"))]
    /\ UNCHANGED <<online, cacheNames, cacheStore, puts, mediaCache>>
    /\ UNCHANGED restVars

\* staleWhileRevalidateStrategy: cache.match resolved; fetch is called, and a
\* hit is returned at once while the fetch goes on
StaleMatch(r) ==
    /\ At(r, "staleWhileRevalidate", "awaitMatch")
    /\ LET cachedResponse == cacheMatch(req[r].cacheName, req[r].request.url) IN
       req' = [req EXCEPT ![r].pc = "awaitFetch", ![r].fetched = TRUE,
                          ![r].answer = IF cachedResponse # NoResponse
                                        THEN Respond(cachedResponse, "cache") ELSE NoAnswer]
    /\ UNCHANGED <<online, cacheNames, cacheStore, puts, mediaCache>>
    /\ UNCHANGED restVars

\* staleWhileRevalidateStrategy: fetch resolved; an ok response is put; the
\* response is what a miss returns
StaleFetchResolves_PutsAny(r) ==
    /\ At(r, "staleWhileRevalidate", "awaitFetch")
    /\ online
    /\ \E networkResponse \in NetworkBodies :
          /\ cachePut(req[r].cacheName, req[r].request.url, networkResponse)
          /\ req' = [req EXCEPT ![r] = Answer(r, IF req[r].answer = NoAnswer
                                                  THEN Respond(networkResponse, "network")
                                                  ELSE req[r].answer)]
    /\ UNCHANGED <<online, cacheNames, cacheStore, mediaCache>>
    /\ UNCHANGED restVars

StaleFetchResolves(r) ==
    /\ At(r, "staleWhileRevalidate", "awaitFetch")
    /\ online
    /\ \E networkResponse \in NetworkBodies :
          /\ IF networkResponse # NoResponse
             THEN cachePut(req[r].cacheName, req[r].request.url, networkResponse)
             ELSE UNCHANGED puts
          /\ req' = [req EXCEPT ![r] = Answer(r, IF req[r].answer = NoAnswer
                                                  THEN Respond(networkResponse, "network")
                                                  ELSE req[r].answer)]
    /\ UNCHANGED <<online, cacheNames, cacheStore, mediaCache>>
    /\ UNCHANGED restVars

\* staleWhileRevalidateStrategy: fetch rejected; the catch logs and yields
\* undefined, which is what a miss returns
StaleFetchRejects_Surfaces(r) ==
    /\ At(r, "staleWhileRevalidate", "awaitFetch")
    /\ ~online
    /\ req' = [req EXCEPT ![r] = Answer(r, Reject("TypeError"))]
    /\ UNCHANGED <<online, cacheNames, cacheStore, puts, mediaCache>>
    /\ UNCHANGED restVars

StaleFetchRejects(r) ==
    /\ At(r, "staleWhileRevalidate", "awaitFetch")
    /\ ~online
    /\ req' = [req EXCEPT ![r] = Answer(r, IF req[r].answer = NoAnswer
                                            THEN Reject("undefined")
                                            ELSE req[r].answer)]
    /\ UNCHANGED <<online, cacheNames, cacheStore, puts, mediaCache>>
    /\ UNCHANGED restVars

\* the network becomes unreachable, or reachable again
SetOnline(reachable) ==
    /\ online # reachable
    /\ online' = reachable
    /\ UNCHANGED <<cacheNames, cacheStore, puts, req, mediaCache>>
    /\ UNCHANGED restVars

cacheFirstStrategy(r) ==
    \/ CacheFirstMatch(r)
    \/ CacheFirstFetchResolves(r)
    \/ CacheFirstFetchRejects(r)
    \/ CacheFirstFallback(r)

networkFirstStrategy(r) ==
    \/ NetworkFirstFetchResolves(r)
    \/ NetworkFirstStore(r)
    \/ NetworkFirstFetchRejects(r)
    \/ NetworkFirstMatch(r)

cacheOnlyStrategy(r) == CacheOnlyMatch(r)

staleWhileRevalidateStrategy(r) ==
    \/ StaleMatch(r)
    \/ StaleFetchResolves(r)
    \/ StaleFetchRejects(r)

StrategyStep(r) ==
    \/ cacheFirstStrategy(r)
    \/ networkFirstStrategy(r)
    \/ cacheOnlyStrategy(r)
    \/ staleWhileRevalidateStrategy(r)

\* The worker is active and answers fetch events; one DOWNLOAD_EPISODE command
\* (for the audio url the sample requests name) can arrive.  The shell
\* partition is empty, or holds what install stored.
InitFetch ==
    /\ InitStores
    /\ recording = FALSE
    /\ clients = 1
    /\ cacheNames = {APP_SHELL_CACHE}
    /\ cacheStore \in {EmptyStore, InstalledStore}
    /\ req = [r \in Requests |-> IdleRequest]
    /\ lookup = NoLookup

NextFetch ==
    \/ \E r \in Requests, request \in SampleRequests : onFetch(r, request)
    \/ \E r \in Requests : StrategyStep(r)
    \/ PutApplied
    \/ \E reachable \in BOOLEAN : SetOnline(reachable)
    \/ handleEpisodeDownload(1, "u1")
    \/ SwFetchResolves(1)
    \/ SwFetchFails(1)
    \/ SwPutResolves(1)
    \/ SwPutRejects(1)
    \/ SwPostComplete(1)
    \/ SwPostFailed(1)

SpecFetch == InitFetch /\ [][NextFetch]_vars

\* shell requests only
ShellRequests == {q \in SampleRequests : classify(q) = "shell"}
NextShell ==
    \/ \E r \in Requests, request \in ShellRequests : onFetch(r, request)
    \/ \E r \in Requests : cacheFirstStrategy(r)
    \/ PutApplied
    \/ \E reachable \in BOOLEAN : SetOnline(reachable)

SpecShell == InitFetch /\ [][NextShell]_vars

\* feed requests only
FeedRequests == {q \in SampleRequests : classify(q) = "feed"}
NextFeed ==
    \/ \E r \in Requests, request \in FeedRequests : onFetch(r, request)
    \/ \E r \in Requests : networkFirstStrategy(r)
    \/ PutApplied
    \/ \E reachable \in BOOLEAN : SetOnline(reachable)

SpecFeed == InitFetch /\ [][NextFeed]_vars

\* image requests only
ImageRequests == {q \in SampleRequests : classify(q) = "image"}
NextStale ==
    \/ \E r \in Requests, request \in ImageRequests : onFetch(r, request)
    \/ \E r \in Requests : staleWhileRevalidateStrategy(r)
    \/ PutApplied
    \/ \E reachable \in BOOLEAN : SetOnline(reachable)

SpecStale == InitFetch /\ [][NextStale]_vars

\* An installed worker gets shell requests whose urls carry a query string.
InitNav ==
    /\ InitStores
    /\ recording = FALSE
    /\ clients = 1
    /\ cacheNames = {APP_SHELL_CACHE}
    /\ cacheStore = InstalledStore
    /\ req = [r \in Requests |-> IdleRequest]
    /\ lookup = NoLookup

NextNav ==
    \/ \E r \in Requests, request \in NavRequests : onFetch(r, request)
    \/ \E r \in Requests : cacheFirstStrategy(r)
    \/ PutApplied
    \/ \E reachable \in BOOLEAN : SetOnline(reachable)

SpecNav == InitNav /\ [][NextNav]_vars

\* dispatch only: the fetch listener on requests of every shape
UrlTokens == {"/", "index.html", "episode", ".mp3", "feed", ".xml", "?"}
Accepts == SUBSET {"audio", "xml", "image"}

Paths == UNION {[1..n -> UrlTokens] : n \in 0..MaxUrlLen}

\* a fetch event is about to be delivered, for a sample request or for a
\* request of any url, accept header and destination
InitDispatch ==
    /\ InitStores
    /\ recording = FALSE
    /\ clients = 1
    /\ cacheNames = {APP_SHELL_CACHE}
    /\ cacheStore = InstalledStore
    /\ \E request \in SampleRequests \cup
                       {Request(Origin \o path, accept, destination) :
                           path \in Paths, accept \in Accepts,
                           destination \in {"document", ""}} :
          req = [r \in Requests |-> IF r = 1 THEN [IdleRequest EXCEPT !.request = request]
                                              ELSE IdleRequest]
    /\ lookup = NoLookup

NextDispatch == onFetch(1, req[1].request)

SpecDispatch == InitDispatch /\ [][NextDispatch]_vars

\* ------------------------------------------- service worker: install, activate

\* the caches the activate listener keeps
KeptCaches == {APP_SHELL_CACHE, AUDIO_CACHE, RSS_CACHE}

\* what the install and activate actions leave alone
lifeRest == <<svcVars, swTask, mediaCache, clients, swMsgs, puts, req, msg>>

\* install event: caches.open(APP_SHELL_CACHE) (which creates the cache), then
\* cache.addAll(APP_SHELL_FILES) fetches every file
install ==
    /\ sw.pc \in {"idle", "installFailed"}
    /\ sw' = [sw EXCEPT !.pc = "installing", !.fetched = {}]
    /\ cacheNames' = cacheNames \cup {APP_SHELL_CACHE}
    /\ UNCHANGED <<online, cacheStore>>
    /\ UNCHANGED lifeRest

\* addAll: one of the files is fetched with an ok response
InstallFetchOk_Stores(file) ==
    /\ sw.pc = "installing"
    /\ online
    /\ file \notin sw.fetched
    /\ sw' = [sw EXCEPT !.fetched = @ \cup {file}]
    /\ cacheStore' = [cacheStore EXCEPT ![APP_SHELL_CACHE][Origin \o file] = 1]
    /\ UNCHANGED <<online, cacheNames>>
    /\ UNCHANGED lifeRest

InstallFetchOk(file) ==
    /\ sw.pc = "installing"
    /\ online
    /\ file \notin sw.fetched
    /\ sw' = [sw EXCEPT !.fetched = @ \cup {file}]
    /\ UNCHANGED <<online, cacheNames, cacheStore>>
    /\ UNCHANGED lifeRest

\* addAll: the fetch of one of the files rejects or its response is not ok;
\* addAll rejects, nothing is stored, and waitUntil's promise rejects: the
\* install fails
InstallFetchFails ==
    /\ sw.pc = "installing"
    /\ sw.fetched # APP_SHELL_FILES
    /\ sw' = [sw EXCEPT !.pc = "installFailed"]
    /\ UNCHANGED <<online, cacheNames, cacheStore>>
    /\ UNCHANGED lifeRest

\* addAll: every file is fetched; all the entries are stored together, addAll
\* resolves and skipWaiting is called
InstallAddAllResolves ==
    /\ sw.pc = "installing"
    /\ sw.fetched = APP_SHELL_FILES
    /\ cacheStore' = [cacheStore EXCEPT ![APP_SHELL_CACHE] =
                         [k \in Keys |-> IF \E file \in APP_SHELL_FILES : k = Origin \o file
                                         THEN 1 ELSE @[k]]]
    /\ sw' = [sw EXCEPT !.pc = "installed", !.skipWaiting = TRUE]
    /\ UNCHANGED <<online, cacheNames>>
    /\ UNCHANGED lifeRest

\* activate event: caches.keys() issued
activate ==
    /\ sw.pc = "installed"
    /\ sw' = [sw EXCEPT !.pc = "awaitKeys"]
    /\ UNCHANGED <<online, cacheNames, cacheStore>>
    /\ UNCHANGED lifeRest

\* caches.keys() resolved: caches.delete is called for every cache that is
\* not one of the three kept
ActivateDeletes ==
    /\ sw.pc = "awaitKeys"
    /\ cacheNames' = cacheNames \cap KeptCaches
    /\ cacheStore' = [n \in StrategyCaches |->
                         IF n \in KeptCaches THEN cacheStore[n] ELSE EmptyStore[n]]
    /\ sw' = [sw EXCEPT !.pc = "awaitDeletes"]
    /\ UNCHANGED online
    /\ UNCHANGED lifeRest

\* the deletions resolved: clients.claim()
ActivateClaims ==
    /\ sw.pc = "awaitDeletes"
    /\ sw' = [sw EXCEPT !.pc = "active", !.claimed = TRUE]
    /\ UNCHANGED <<online, cacheNames, cacheStore>>
    /\ UNCHANGED lifeRest

\* A worker of the current generation is installed and activated, whatever
\* caches earlier workers left.
InitLifecycle ==
    /\ InitStores
    /\ recording = FALSE
    /\ clients = 1
    /\ cacheNames \in SUBSET CacheNames
    /\ cacheStore = EmptyStore
    /\ req = [r \in Requests |-> IdleRequest]
    /\ lookup = NoLookup

NextLifecycle ==
    \/ install
    \/ \E file \in APP_SHELL_FILES : InstallFetchOk(file)
    \/ InstallFetchFails
    \/ InstallAddAllResolves
    \/ activate
    \/ ActivateDeletes
    \/ ActivateClaims
    \/ \E reachable \in BOOLEAN : SetOnline(reachable)

SpecLifecycle == InitLifecycle /\ [][NextLifecycle]_vars

\* ------------------------- service worker: CLEAR_CACHE and GET_CACHE_STATUS

\* what the two handlers leave alone
msgRest == <<svcVars, swTask, clients, swMsgs, online, puts, req, sw>>

\* the next free slot for a CLEAR_CACHE or GET_CACHE_STATUS command
FreeMessage(c) == msg[c].pc = "idle" /\ \A d \in Messages : d < c => msg[d].pc # "idle"

\* payload.cacheType values: the three the handler knows and one it does not
CacheTypes == {"audio", "rss", "all", "images"}

\* the await handleClearCache reaches first from position `from` of its
\* sequence of three ifs (1: audio, 2: rss, 3: general), or "done"
ClearFrom(cacheType, from) ==
    IF from <= 1 /\ cacheType \in {"audio", "all"} THEN "awaitDeleteAudio"
    ELSE IF from <= 2 /\ cacheType \in {"rss", "all"} THEN "awaitDeleteRss"
    ELSE IF from <= 3 /\ cacheType = "all" THEN "awaitDeleteGeneral"
    ELSE "done"

\* message listener, case 'CLEAR_CACHE': handleClearCache(payload) up to its
\* first await
handleClearCache(c, cacheType) ==
    /\ FreeMessage(c)
    /\ msg' = [msg EXCEPT ![c] = [IdleMessage EXCEPT !.pc = ClearFrom(cacheType, 1),
                                                    !.type = "CLEAR_CACHE",
                                                    !.cacheType = cacheType]]
    /\ UNCHANGED <<mediaCache, cacheNames, cacheStore>>
    /\ UNCHANGED msgRest

\* caches.delete(AUDIO_CACHE) resolved: the cache and its entries are gone
ClearAudioResolves(c) ==
    /\ msg[c].pc = "awaitDeleteAudio"
    /\ mediaCache' = {}
    /\ cacheNames' = cacheNames \ {AUDIO_CACHE}
    /\ msg' = [msg EXCEPT ![c].pc = ClearFrom(msg[c].cacheType, 2)]
    /\ UNCHANGED cacheStore
    /\ UNCHANGED msgRest

\* caches.delete(RSS_CACHE) resolved
ClearRssResolves(c) ==
    /\ msg[c].pc = "awaitDeleteRss"
    /\ cacheStore' = [cacheStore EXCEPT ![RSS_CACHE] = [k \in Keys |-> NoResponse]]
    /\ cacheNames' = cacheNames \ {RSS_CACHE}
    /\ msg' = [msg EXCEPT ![c].pc = ClearFrom(msg[c].cacheType, 3)]
    /\ UNCHANGED mediaCache
    /\ UNCHANGED msgRest

\* caches.delete(CACHE_NAME) resolved
ClearGeneralResolves(c) ==
    /\ msg[c].pc = "awaitDeleteGeneral"
    /\ cacheStore' = [cacheStore EXCEPT ![CACHE_NAME] = [k \in Keys |-> NoResponse]]
    /\ cacheNames' = cacheNames \ {CACHE_NAME}
    /\ msg' = [msg EXCEPT ![c].pc = "done"]
    /\ UNCHANGED mediaCache
    /\ UNCHANGED msgRest

\* a caches.delete rejected: the one catch around the three ifs logs, and the
\* handler is over
ClearRejects(c) ==
    /\ msg[c].pc \in {"awaitDeleteAudio", "awaitDeleteRss", "awaitDeleteGeneral"}
    /\ msg' = [msg EXCEPT ![c].pc = "done"]
    /\ UNCHANGED <<mediaCache, cacheNames, cacheStore>>
    /\ UNCHANGED msgRest

\* what handleGetCacheStatus posts: the status object or the error object
StatusMessage(audioFiles, rssFeeds, totalSize) ==
    [kind |-> "status", audioFiles |-> audioFiles, rssFeeds |-> rssFeeds,
     totalSize |-> totalSize]
ErrorMessage == [kind |-> "error", audioFiles |-> 0, rssFeeds |-> 0, totalSize |-> 0]

\* estimate.usage || 0
Usages == {0, 1}

\* message listener, case 'GET_CACHE_STATUS': handleGetCacheStatus(event) up
\* to its first await; caches.open(AUDIO_CACHE) creates the cache, keys() is
\* awaited next
handleGetCacheStatus(c, hasPort) ==
    /\ FreeMessage(c)
    /\ msg' = [msg EXCEPT ![c] = [IdleMessage EXCEPT !.pc = "awaitAudioKeys",
                                                    !.type = "GET_CACHE_STATUS",
                                                    !.hasPort = hasPort]]
    /\ cacheNames' = cacheNames \cup {AUDIO_CACHE}
    /\ UNCHANGED <<mediaCache, cacheStore>>
    /\ UNCHANGED msgRest

\* audioCache.keys() resolved; caches.open(RSS_CACHE), rssCache.keys() issued
StatusAudioKeys(c) ==
    /\ msg[c].pc = "awaitAudioKeys"
    /\ msg' = [msg EXCEPT ![c].pc = "awaitRssKeys", ![c].audioFiles = Cardinality(mediaCache)]
    /\ cacheNames' = cacheNames \cup {RSS_CACHE}
    /\ UNCHANGED <<mediaCache, cacheStore>>
    /\ UNCHANGED msgRest

\* rssCache.keys() resolved; estimateCacheSize() called
StatusRssKeys(c) ==
    /\ msg[c].pc = "awaitRssKeys"
    /\ msg' = [msg EXCEPT ![c].pc = "awaitEstimate",
                          ![c].rssFeeds =
                              Cardinality({k \in Keys : cacheStore[RSS_CACHE][k] # NoResponse})]
    /\ UNCHANGED <<mediaCache, cacheNames, cacheStore>>
    /\ UNCHANGED msgRest

\* event.ports[0].postMessage(message); without a port ports[0] is undefined
\* and the call throws
postOnPort(c, message) ==
    IF msg[c].hasPort THEN Append(msg[c].port, message) ELSE msg[c].port

\* estimateCacheSize() resolved: the status object is posted
StatusPosts_Twice(c) ==
    /\ msg[c].pc = "awaitEstimate"
    /\ \E totalSize \in Usages :
          LET status == StatusMessage(msg[c].audioFiles, msg[c].rssFeeds, totalSize) IN
          msg' = [msg EXCEPT ![c].pc = "done",
                             ![c].port = Append(postOnPort(c, status), ErrorMessage)]
    /\ UNCHANGED <<mediaCache, cacheNames, cacheStore>>
    /\ UNCHANGED msgRest

StatusPosts(c) ==
    /\ msg[c].pc = "awaitEstimate"
    /\ \E totalSize \in Usages :
          msg' = [msg EXCEPT ![c].pc = "done",
                             ![c].port = postOnPort(c, StatusMessage(msg[c].audioFiles,
                                                                     msg[c].rssFeeds,
                                                                     totalSize))]
    /\ UNCHANGED <<mediaCache, cacheNames, cacheStore>>
    /\ UNCHANGED msgRest

\* one of the awaited operations rejected: the catch posts the error object
StatusRejects(c) ==
    /\ msg[c].pc \in {"awaitAudioKeys", "awaitRssKeys", "awaitEstimate"}
    /\ msg' = [msg EXCEPT ![c].pc = "done", ![c].port = postOnPort(c, ErrorMessage)]
    /\ UNCHANGED <<mediaCache, cacheNames, cacheStore>>
    /\ UNCHANGED msgRest

\* the strategies' partitions of a worker that has served a feed
FeedStore ==
    [InstalledStore EXCEPT ![RSS_CACHE][Origin \o <<"/", "feed", ".xml">>] = 1]

\* An active worker with a feed cached gets CLEAR_CACHE and GET_CACHE_STATUS
\* commands, and one DOWNLOAD_EPISODE command.
InitMessage ==
    /\ InitStores
    /\ recording = FALSE
    /\ clients = 1
    /\ cacheNames = {APP_SHELL_CACHE, RSS_CACHE, CACHE_NAME}
    /\ cacheStore = FeedStore
    /\ req = [r \in Requests |-> IdleRequest]
    /\ lookup = NoLookup

NextMessage ==
    \/ \E c \in Messages, cacheType \in CacheTypes : handleClearCache(c, cacheType)
    \/ \E c \in Messages : ClearAudioResolves(c)
    \/ \E c \in Messages : ClearRssResolves(c)
    \/ \E c \in Messages : ClearGeneralResolves(c)
    \/ \E c \in Messages : ClearRejects(c)
    \/ \E c \in Messages, hasPort \in BOOLEAN : handleGetCacheStatus(c, hasPort)
    \/ \E c \in Messages : StatusAudioKeys(c)
    \/ \E c \in Messages : StatusRssKeys(c)
    \/ \E c \in Messages : StatusPosts(c)
    \/ \E c \in Messages : StatusRejects(c)
    \/ handleEpisodeDownload(1, "u1")
    \/ SwFetchResolves(1)
    \/ SwFetchFails(1)
    \/ SwPutResolves(1)
    \/ SwPutRejects(1)
    \/ SwPostComplete(1)
    \/ SwPostFailed(1)

SpecMessage == InitMessage /\ [][NextMessage]_vars

\* ------------------------------------------------------------------ playback

\* PlayerView, when the current episode changes: audio.src = audioUrl and
\* audio.load(); the worker's fetch listener gets the audio element's request
play(r, i) == \E request \in PlaybackRequests(i) : onFetch(r, request)

\* One episode is downloaded by DownloadService and episodes are played.
InitPlay ==
    /\ InitStores
    /\ recording = FALSE
    /\ clients = 1
    /\ cacheNames = {APP_SHELL_CACHE}
    /\ cacheStore = InstalledStore
    /\ req = [r \in Requests |-> IdleRequest]
    /\ lookup = NoLookup

NextPlay ==
    \/ \E i \in Ids : downloadEpisode(1, [id |-> i, downloadStatus |-> "none", playbackPosition |-> 0], TRUE)
    \/ TaskStep(1, Totals, ChunkLens, MaxChunks)
    \/ \E i \in Ids : cancelDownload(i)
    \/ \E r \in Requests, i \in Ids : play(r, i)
    \/ \E r \in Requests : cacheOnlyStrategy(r)
    \/ \E r \in Requests : networkFirstStrategy(r)
    \/ PutApplied
    \/ \E reachable \in BOOLEAN : SetOnline(reachable)

SpecPlay == InitPlay /\ [][NextPlay]_vars

\* --------------------------------------------------- RSSService.validateFeedUrl

\* A feed url typed by the user is a sequence of tokens: a scheme with its
\* colon, a slash, a run of host characters, a space.
SchemeTokens == {"http:", "https:", "ftp:", "test:", "HTTP:"}
FeedTokens == SchemeTokens \cup {"/", "host", " "}
FeedUrls == UNION {[1..n -> FeedTokens] : n \in 0..MaxUrlLen}

\* new URL(url) strips leading and trailing spaces
Trim(str) ==
    LET inked == {n \in 1..Len(str) : str[n] # " "} IN
    IF inked = {} THEN <<>>
    ELSE SubSeq(str, CHOOSE a \in inked : \A n \in inked : a <= n,
                     CHOOSE b \in inked : \A n \in inked : n <= b)

\* the scheme is lowercased
ToLower(token) == IF token = "HTTP:" THEN "http:" ELSE token

\* the schemes whose urls must have a host
SpecialSchemes == {"http:", "https:", "ftp:"}

\* str without its leading slashes
SkipSlashes(str) ==
    LET other == {n \in 1..Len(str) : str[n] # "/"} IN
    IF other = {} THEN <<>>
    ELSE SubSeq(str, CHOOSE a \in other : \A n \in other : a <= n, Len(str))

\* the authority: what precedes the first slash
Authority(str) == SubSeq(str, 1, FirstIndex(str, "/") - 1)

\* host[:port] parses: no space, and no colon but a last one (an empty port)
ValidAuthority(authority) ==
    /\ \A n \in 1..Len(authority) : authority[n] # " "
    /\ \A n \in 1..(Len(authority) - 1) : authority[n] = "host"

\* new URL(url).protocol, or "invalid" when the constructor throws: there is
\* no base url, so the string must start with a scheme; a special scheme
\* needs a host, whatever the number of slashes; any other scheme has an
\* authority only after "//", and it may be empty
URLProtocol(url) ==
    LET str == Trim(url) IN
    IF str = <<>> THEN "invalid"
    ELSE IF str[1] \notin SchemeTokens THEN "invalid"
    ELSE LET scheme == ToLower(str[1])
             rest == Tail(str)
         IN IF scheme \in SpecialSchemes
            THEN LET authority == Authority(SkipSlashes(rest)) IN
                 IF authority # <<>> /\ ValidAuthority(authority) THEN scheme ELSE "invalid"
            ELSE IF Len(rest) >= 2 /\ rest[1] = "/" /\ rest[2] = "/"
                 THEN IF ValidAuthority(Authority(SubSeq(rest, 3, Len(rest))))
                      THEN scheme ELSE "invalid"
                 ELSE scheme

\* url.startsWith('test://')
StartsWithTest(url) ==
    Len(url) >= 3 /\ url[1] = "test:" /\ url[2] = "/" /\ url[3] = "/"

\* validateFeedUrl(url)
validateFeedUrl_AnyProtocol(url) ==
    IF StartsWithTest(url) THEN TRUE
    ELSE URLProtocol(url) # "invalid"

validateFeedUrl(url) ==
    IF StartsWithTest(url) THEN TRUE
    ELSE LET protocol == URLProtocol(url) IN
         protocol = "http:" \/ protocol = "https:"

\* a call of validateFeedUrl on the string under observation
ValidateCall ==
    /\ lookup.pc = "idle" /\ lookup.op = "validateFeedUrl"
    /\ lookup' = [lookup EXCEPT !.pc = "done",
                                !.result = IF validateFeedUrl(lookup.arg)
                                           THEN "true" ELSE "false"]
    /\ UNCHANGED db
    /\ UNCHANGED lookupRest

\* validateFeedUrl is called on one string of up to MaxUrlLen tokens
InitValidate ==
    /\ InitStores
    /\ recording = FALSE
    /\ clients = 0
    /\ cacheNames = {}
    /\ cacheStore = EmptyStore
    /\ req = [r \in Requests |-> IdleRequest]
    /\ \E url \in FeedUrls : lookup = Lookup("idle", "validateFeedUrl", url, "pending")

NextValidate == ValidateCall

SpecValidate == InitValidate /\ [][NextValidate]_vars

\* ------------------------------------------------------------------- claims

Live(t) == task[t].pc \notin {"idle", "done"}
LiveTasks(i) == {t \in Tasks : Live(t) /\ task[t].id = i}
\* t enters the catch block in this step
Caught(t) == task[t].pc # "awaitUpdateErr" /\ task'[t].pc = "awaitUpdateErr"
\* t settles through the catch block in this step
Failed(t) == task[t].pc = "awaitUpdateErr" /\ task'[t].pc = "done"
\* the errors by which a task observes its cancellation
CancellationErrors == {"AbortError", "Cancelled"}

\* C1: in every reachable state an episode's persisted status is 'downloaded'
\* if and only if the audio store holds an entry under its id.
C1_DownloadedIffBlob ==
    \A i \in Ids : (persisted[i] = "downloaded") <=> blob[i]

\* C2: for every episode id at most one downloadEpisode execution is live
\* (past its guard, not yet settled) at any time.
C2_OneLiveTaskPerId ==
    \A i \in Ids : Cardinality(LiveTasks(i)) <= 1

\* C3: a DOWNLOAD_EPISODE command that arrives while its url is being
\* downloaded adds no terminal event: the clients get one DOWNLOAD_COMPLETE or
\* DOWNLOAD_FAILED per download, not one per command.
SwCommands(u) == {c \in Commands : swTask[c].url = u}
SwTerminal(u) == swMsgs[u].complete + swMsgs[u].failed
C3_OneTerminalEvent ==
    \A u \in Urls :
        LET firsts == {c \in SwCommands(u) : ~swTask[c].second} IN
        /\ SwTerminal(u) <= Cardinality(firsts)
        /\ (clients > 0 /\ ~InFlight(u)) => SwTerminal(u) = Cardinality(firsts)

\* C4: a task that observes its cancellation (AbortError from the fetch or the
\* read, or the per-chunk aborted check) does not set the status to 'error',
\* and when it settles with no other operation on the id in progress the
\* status is 'none'.
C4_CancelEndsAbsent ==
    [][\A t \in Tasks :
          /\ (Caught(t) /\ task'[t].err \in CancellationErrors)
                => persisted'[task[t].id] # "error"
          /\ (Failed(t) /\ task[t].err \in CancellationErrors
                /\ LiveTasks(task[t].id) = {t} /\ del[task[t].id] = "idle")
                => persisted'[task[t].id] = "none"]_vars

\* C5: once cancelDownload has aborted a task, the onProgress callback that
\* task registered is never invoked again.
C5_NoProgressAfterCancel ==
    out.cb # NoTask => ~task[out.cb].aborted

\* a cancelled task that passed a callback has observed the abort and is about
\* to report the error: its callback is no longer registered
C5_Witness ==
    \E t \in Tasks : /\ task[t].pc = "awaitUpdateErr" /\ task[t].aborted /\ task[t].cb
                     /\ task[t].err = "AbortError"
                     /\ downloadCallbacks[task[t].id] = NoTask

\* C6: a task that fails for a reason other than cancellation writes status
\* 'error', and when it settles the progress callback is invoked with status
\* 'error' for its id (if it passed one) and its promise rejects.
C6_FailureReported ==
    [][\A t \in Tasks :
          /\ (Caught(t) /\ task'[t].err \notin CancellationErrors)
                => persisted'[task[t].id] = "error"
          /\ (Failed(t) /\ task[t].err \notin CancellationErrors /\ ~task[t].aborted)
                => /\ task[t].cb => (out'.status = "error" /\ out'.episodeId = task[t].id)
                   /\ task'[t].result = "rejected"]_vars

\* C7: a task that observes its cancellation, at any of the three points,
\* settles by resolving.
C7_CancelResolves ==
    [][\A t \in Tasks :
          (Failed(t) /\ task[t].err \in CancellationErrors)
             => task'[t].result = "resolved"]_vars

\* C8: a download delivered in k equal chunks with a known total size reports
\* 0, then round(i*100/k) for i = 1..k, then the completed event at 100; the
\* sequence is non-decreasing, ends at 100 and the status is then 'downloaded'.
EqualChunks(tk) ==
    /\ tk.total > 0
    /\ Len(tk.chunks) > 0
    /\ \A n \in 1..Len(tk.chunks) : tk.chunks[n] = tk.chunks[1]
    /\ tk.received = tk.total
C8_ProgressSequence ==
    [][\A t \in Tasks :
          (/\ task[t].pc = "awaitUpdateDone" /\ task'[t].pc = "done"
           /\ task[t].cb /\ ~task[t].aborted /\ EqualChunks(task[t]))
          => LET k == Len(task[t].chunks) IN
             /\ Len(events') = k + 2
             /\ events'[1].progress = 0 /\ events'[1].status = "downloading"
             /\ \A n \in 1..k : /\ events'[n + 1].progress = (200 * n + k) \div (2 * k)
                                /\ events'[n + 1].status = "downloading"
             /\ events'[k + 2].progress = 100 /\ events'[k + 2].status = "completed"
             /\ \A n \in 1..(k + 1) : events'[n].progress <= events'[n + 1].progress
             /\ events'[k + 1].progress = 100
             /\ persisted'[task[t].id] = "downloaded"]_vars

\* the spec's scenario has happened: MaxK equal chunks, all events delivered
C8_Witness ==
    /\ task[1].pc = "done" /\ task[1].result = "resolved" /\ ~task[1].aborted
    /\ Len(events) = MaxK + 2
    /\ events[MaxK + 2].status = "completed"
    /\ events[2].progress = 100 \div MaxK
    /\ persisted["e1"] = "downloaded"

\* C9: downloadEpisode called with an episode whose downloadStatus is
\* 'downloading' or 'downloaded' returns at once and changes nothing: only
\* objects with status 'none' or 'error' get past the guard, and a call that
\* returns at the guard leaves the maps, the stores, the other executions and
\* the callbacks untouched.
C9_GuardedNoOp ==
    /\ [](\A t \in Tasks : task[t].pc = "awaitUpdate" => task[t].arg \in {"none", "error"})
    /\ [][\A t \in Tasks :
            (task[t].pc = "idle" /\ task'[t].pc = "done")
               => /\ task'[t].result = "noop"
                  /\ UNCHANGED <<persisted, blob, activeDownloads, downloadCallbacks, del, events>>
                  /\ out' = NoEvent
                  /\ \A u \in Tasks \ {t} : task'[u] = task[u]]_vars

\* a call was a no-op while another execution was live and the store said 'downloading'
C9_Witness ==
    \E t, u \in Tasks : /\ task[t].result = "noop"
                        /\ Live(u) /\ task[u].id = task[t].id
                        /\ activeDownloads[task[t].id] = u
                        /\ persisted[task[t].id] = "downloading"

\* C10: an episode's persisted status changes only along none->downloading,
\* downloading->downloaded, downloading->error, error->downloading,
\* downloaded->none and downloading->none.
AllowedTransitions ==
    {<<"none", "downloading">>, <<"downloading", "downloaded">>, <<"downloading", "error">>,
     <<"error", "downloading">>, <<"downloaded", "none">>, <<"downloading", "none">>}
C10_StatusTransitions ==
    [][\A i \in Ids : persisted'[i] # persisted[i]
                         => <<persisted[i], persisted'[i]>> \in AllowedTransitions]_vars

\* C11: deleteDownload completes whether or not a blob exists for the episode,
\* including when nothing was ever downloaded: a call goes on to delete the
\* entry (it does not hang or fail), and when it returns with no download of
\* the episode in progress there is no blob under the id and the status is
\* 'none', so that a second call ends in the same state as the first.
C11_DeleteIdempotent ==
    [][\A i \in Ids :
          /\ (del[i] = "idle" /\ del'[i] # "idle")
                => (del'[i] = "awaitDelete" /\ ~blob'[i])
          /\ (del[i] = "awaitDelete" /\ del'[i] = "idle" /\ LiveTasks(i) = {})
                => (~blob'[i] /\ persisted'[i] = "none")]_vars

\* the fetch event r settles respondWith, or ends, in this step
Answered(r) == req[r].answer = NoAnswer /\ req'[r].answer # NoAnswer
Ended(r) == req[r].pc # "done" /\ req'[r].pc = "done"
\* the answer is a successful response
Ok(answer) == answer.kind = "response" /\ answer.body # NoResponse

\* C12: once an episode's download has completed (status 'downloaded', blob
\* stored), a playback request for its audio that is answered while the
\* network is unreachable is answered successfully from local storage.
C12_PlaybackOffline ==
    [][\A r \in Requests, i \in Ids :
          (/\ Answered(r) /\ req[r].request \in PlaybackRequests(i)
           /\ persisted[i] = "downloaded" /\ blob[i] /\ ~online)
          => (Ok(req'[r].answer) /\ req'[r].answer.from = "cache")]_vars

\* C13: a media request is handled by cacheOnlyStrategy, which never calls
\* fetch, hit or miss, and which on a miss (no entry under the request's url
\* in the media partition) fails with 'Audio file not downloaded' and on a
\* hit returns the entry.
C13_CacheOnly ==
    /\ [](\A r \in Requests :
            /\ req[r].class = "media" => req[r].strategy = "cacheOnly"
            /\ req[r].strategy = "cacheOnly"
                  => (~req[r].fetched /\ req[r].pc \in {"awaitMatch", "done"}))
    /\ [][\A r \in Requests :
            (Ended(r) /\ req[r].strategy = "cacheOnly")
               => LET entry == cacheMatch(AUDIO_CACHE, req[r].request.url) IN
                  req'[r].answer = IF entry = NoResponse
                                   THEN Reject("Audio file not downloaded")
                                   ELSE Respond(entry, "cache")]_vars

\* a media request missed while the network was reachable, and another hit
C13_Witness ==
    \E r, q \in Requests :
        /\ req[r].class = "media" /\ req[r].pc = "done" /\ ~req[r].fetched
        /\ req[r].answer = Reject("Audio file not downloaded") /\ online
        /\ req[q].class = "media" /\ req[q].pc = "done" /\ ~req[q].fetched
        /\ Ok(req[q].answer)

CurrentCaches == {APP_SHELL_CACHE, AUDIO_CACHE, RSS_CACHE, CACHE_NAME}
C16_ActivateKeepsCurrent ==
    /\ [][(sw.pc = "awaitKeys" /\ sw'.pc # "awaitKeys")
            => cacheNames' = cacheNames \cap CurrentCaches]_vars
    /\ [](sw.claimed => (sw.pc = "active" /\ cacheNames \cap OldCaches = {}))

\* C17: skipWaiting is called only when every shell file has been fetched and
\* stored; while the files are being fetched, and when the install has failed
\* because one fetch failed, nothing of the attempt is in the shell partition
\* and skipWaiting has not been called.
ShellEntries == {file \in APP_SHELL_FILES : cacheStore[APP_SHELL_CACHE][Origin \o file] # NoResponse}
C17_InstallAllOrNothing ==
    /\ sw.skipWaiting => (ShellEntries = APP_SHELL_FILES /\ sw.fetched = APP_SHELL_FILES)
    /\ sw.pc \in {"installing", "installFailed"} => (ShellEntries = {} /\ ~sw.skipWaiting)
    /\ sw.pc \in {"installed", "awaitKeys", "awaitDeletes", "active"} => sw.skipWaiting

\* an install failed after some of the files had been fetched
C17_Witness ==
    /\ sw.pc = "installFailed"
    /\ sw.fetched # {}
    /\ ShellEntries = {}

\* C18: the branch a request takes is shell on an exact path match with the
\* shell manifest, else media when the url has an audio file extension or the
\* accept header names audio, else feed on a feed/rss keyword in the url or
\* an XML accept header, else image on an image accept header, else other.
AudioExtensions == {".mp3", ".m4a", ".ogg"}
HasAudioExtension(url) ==
    LET path == Pathname(url) IN path[Len(path)] \in AudioExtensions
C18_Class(request) ==
    IF Pathname(request.url) \in APP_SHELL_FILES THEN "shell"
    ELSE IF HasAudioExtension(request.url) \/ "audio" \in request.accept THEN "media"
    ELSE IF \/ Includes(request.url, "feed") \/ Includes(request.url, "rss")
            \/ "xml" \in request.accept THEN "feed"
    ELSE IF "image" \in request.accept THEN "image"
    ELSE "other"
C18_Classify ==
    \A r \in Requests :
        req[r].pc # "idle" => req[r].class = C18_Class(req[r].request)

\* C19: every fetch event is answered by the one strategy of its request's
\* class: shell by cacheFirst on the shell partition, media by cacheOnly on
\* the media partition, feed by networkFirst on the feed partition, image by
\* staleWhileRevalidate and other by networkFirst.
C19_Strategy(class) ==
    CASE class = "shell" -> "cacheFirst"
      [] class = "media" -> "cacheOnly"
      [] class = "feed" -> "networkFirst"
      [] class = "image" -> "staleWhileRevalidate"
      [] class = "other" -> "networkFirst"
C19_Partition(class) ==
    CASE class = "shell" -> {APP_SHELL_CACHE}
      [] class = "media" -> {AUDIO_CACHE}
      [] class = "feed" -> {RSS_CACHE}
      [] OTHER -> CacheNames
C19_Dispatch ==
    \A r \in Requests :
        req[r].pc # "idle"
           => /\ req[r].class = classify(req[r].request)
              /\ req[r].strategy = C19_Strategy(req[r].class)
              /\ req[r].cacheName \in C19_Partition(req[r].class)

\* an image request with an audio-free, feed-free url was dispatched
C19_Witness ==
    /\ req[1].pc = "awaitMatch"
    /\ req[1].class = "image"
    /\ req[1].strategy = "staleWhileRevalidate"
    /\ req[1].request.destination = "document"

\* C20: the media partition changes only when the DOWNLOAD_EPISODE handler's
\* cache.put is applied; no strategy issues a put on the media partition,
\* whatever the request and the network's answer.
C20_MediaWrittenByDownloadOnly ==
    /\ [](\A put \in puts : put.cacheName # AUDIO_CACHE)
    /\ [](\A r \in Requests : req[r].cacheName = AUDIO_CACHE => req[r].strategy = "cacheOnly")
    /\ [][mediaCache' # mediaCache
            => \E c \in Commands : /\ swTask[c].pc = "awaitPut" /\ swTask'[c].pc = "awaitClients"
                                   /\ mediaCache' = mediaCache \cup {swTask[c].url}]_vars

\* the handler stored an episode, and strategies of every kind stored or
\* served responses, a media request among them
C20_Witness ==
    /\ mediaCache # {}
    /\ puts = {}
    /\ \E r, q \in Requests :
          /\ req[r].class = "media" /\ req[r].pc = "done"
          /\ req[q].class # "media" /\ req[q].pc = "done" /\ Ok(req[q].answer)
          /\ req[q].answer.from = "network"
          /\ cacheStore[req[q].cacheName][req[q].request.url] = req[q].answer.body

\* C21: staleWhileRevalidateStrategy, finding the entry, answers with it at
\* once (the network has not answered) and has called fetch once; whatever
\* the refresh does the answer given stays, and a refresh that fails gives the
\* caller no error and leaves the partition and its pending writes as they
\* were.
C21_StaleHit ==
    /\ [][\A r \in Requests :
            LET entry == cacheStore[req[r].cacheName][req[r].request.url] IN
            (At(r, "staleWhileRevalidate", "awaitMatch") /\ req'[r] # req[r] /\ entry # NoResponse)
            => /\ req'[r].answer = Respond(entry, "cache")
               /\ req'[r].pc = "awaitFetch" /\ req'[r].fetched]_vars
    /\ [][\A r \in Requests :
            (req[r].strategy = "staleWhileRevalidate" /\ req[r].answer # NoAnswer)
            => req'[r].answer = req[r].answer]_vars
    /\ [][\A r \in Requests :
            (/\ At(r, "staleWhileRevalidate", "awaitFetch") /\ Ended(r)
             /\ req[r].answer # NoAnswer /\ ~online)
            => (cacheStore' = cacheStore /\ puts' = puts)]_vars

\* a hit was answered from the partition and its refresh failed
C21_Witness ==
    \E r \in Requests :
        /\ req[r].strategy = "staleWhileRevalidate" /\ req[r].pc = "done"
        /\ req[r].fetched /\ ~online /\ puts = {}
        /\ Ok(req[r].answer) /\ req[r].answer.from = "cache"
        /\ cacheStore[req[r].cacheName][req[r].request.url] = req[r].answer.body

\* C22: staleWhileRevalidateStrategy, finding no entry, answers when its one
\* fetch settles: with the response, stored under the request's url when it
\* is ok, or, the fetch having failed, with the network's error (never with
\* an undefined result).
C22_StaleMiss ==
    /\ [][\A r \in Requests :
            (At(r, "staleWhileRevalidate", "awaitMatch") /\ req'[r] # req[r]
               /\ cacheStore[req[r].cacheName][req[r].request.url] = NoResponse)
            => (req'[r].answer = NoAnswer /\ req'[r].pc = "awaitFetch" /\ req'[r].fetched)]_vars
    /\ [][\A r \in Requests :
            (At(r, "staleWhileRevalidate", "awaitFetch") /\ Answered(r))
            => \/ /\ req'[r].answer.kind = "response" /\ req'[r].answer.from = "network"
                  /\ Ok(req'[r].answer)
                       => [cacheName |-> req[r].cacheName, url |-> req[r].request.url,
                           body |-> req'[r].answer.body] \in puts'
               \/ /\ ~online
                  /\ req'[r].answer.kind = "error"
                  /\ req'[r].answer.error # "undefined"]_vars

\* C23: cacheFirstStrategy, having missed, with its fetch rejected: a
\* request whose destination is 'document' is answered with the entry the shell
\* partition holds under '/index.html', any other request fails with the
\* fetch's error.
C23_CacheFirstFailure ==
    /\ [][\A r \in Requests :
            (At(r, "cacheFirst", "awaitFetch") /\ ~online /\ req'[r] # req[r])
            => IF req[r].request.destination = "document"
               THEN req'[r].pc = "awaitFallback" /\ req'[r].answer = NoAnswer
               ELSE req'[r].pc = "done" /\ req'[r].answer = Reject("TypeError")]_vars
    /\ [][\A r \in Requests :
            (At(r, "cacheFirst", "awaitFallback") /\ req'[r] # req[r])
            => /\ req'[r].pc = "done"
               /\ Ok(req'[r].answer)
               /\ req'[r].answer = Respond(cacheStore[APP_SHELL_CACHE][IndexUrl], "cache")]_vars

\* a navigation that missed and could not fetch got the root document, and a
\* script request in the same situation got the error
C23_Witness ==
    \E r, q \in Requests :
        /\ req[r].request.destination = "document" /\ req[r].pc = "done" /\ req[r].fetched
        /\ req[r].request.url # IndexUrl
        /\ req[r].answer = Respond(cacheStore[APP_SHELL_CACHE][IndexUrl], "cache")
        /\ req[q].request.destination = "script" /\ req[q].pc = "done" /\ req[q].fetched
        /\ req[q].answer = Reject("TypeError")

\* C24: a GET_CACHE_STATUS command that carries a reply port has nothing
\* posted on the port while its handler runs and exactly one message once the
\* handler is over: the status object with the counts the handler read, or
\* the error object; a finished handler posts nothing more.
C24_OneReply ==
    /\ [](\A c \in Messages :
            (msg[c].type = "GET_CACHE_STATUS" /\ msg[c].hasPort)
            => IF msg[c].pc = "done"
               THEN /\ Len(msg[c].port) = 1
                    /\ \/ msg[c].port[1] = ErrorMessage
                       \/ \E totalSize \in Usages :
                             msg[c].port[1] =
                                StatusMessage(msg[c].audioFiles, msg[c].rssFeeds, totalSize)
               ELSE msg[c].port = <<>>)
    /\ [][\A c \in Messages : msg[c].pc = "done" => msg'[c] = msg[c]]_vars

\* one command was answered with a status that counts a downloaded episode and
\* the cached feed, another with the error object
C24_Witness ==
    \E c, d \in Messages :
        /\ msg[c].hasPort /\ msg[c].pc = "done"
        /\ Len(msg[c].port) = 1 /\ msg[c].port[1].kind = "status"
        /\ msg[c].port[1].audioFiles = 1 /\ msg[c].port[1].rssFeeds = 1
        /\ msg[d].hasPort /\ msg[d].pc = "done"
        /\ msg[d].port = <<ErrorMessage>>

\* C25: a CLEAR_CACHE handler ends only after the delete of the last partition
\* its cacheType targets has settled: a delete that fails does not keep the
\* deletes of the partitions after it from being issued.
C25_LastAwait(cacheType) ==
    CASE cacheType = "audio" -> "awaitDeleteAudio"
      [] cacheType = "rss" -> "awaitDeleteRss"
      [] cacheType = "all" -> "awaitDeleteGeneral"
      [] OTHER -> "idle"
C25_ClearIndependent ==
    [][\A c \in Messages :
          (msg[c].type = "CLEAR_CACHE" /\ msg[c].pc # "done" /\ msg'[c].pc = "done")
          => msg[c].pc = C25_LastAwait(msg[c].cacheType)]_vars

\* C26: a step changes the task, the map entries, the persisted status, the
\* blob and the delete of at most one episode id (a step of one id's download,
\* cancel, failure or delete leaves every other id's unchanged), and a download
\* in progress always has a step it can take, whatever was done for other ids
\* ('e2' is the episode that is only downloaded, 'e1' the one also cancelled
\* and deleted).
C26_Changed(i) ==
    \/ persisted'[i] # persisted[i]
    \/ blob'[i] # blob[i]
    \/ activeDownloads'[i] # activeDownloads[i]
    \/ downloadCallbacks'[i] # downloadCallbacks[i]
    \/ del'[i] # del[i]
    \/ \E t \in Tasks : (task[t].id = i \/ task'[t].id = i) /\ task'[t] # task[t]
C26_Frame == [][\A i, j \in Ids : (C26_Changed(i) /\ C26_Changed(j)) => i = j]_vars
C26_Independent ==
    /\ C26_Frame
    /\ [](\A t \in Tasks :
            (task[t].id = "e2" /\ task[t].pc \notin {"idle", "done"})
               => ENABLED TaskStep(t, Totals, ChunkLens, MaxChunks))

\* C27: every downloadEpisode call that passed its guard eventually settles,
\* and a settled call owns no entry of activeDownloads (what
\* getActiveDownloads lists) and no registered callback.
C27_Settles ==
    /\ \A t \in Tasks : (task[t].pc \notin {"idle", "done"}) ~> (task[t].pc = "done")
    /\ [](\A t \in Tasks, i \in Ids :
            task[t].pc = "done" => (activeDownloads[i] # t /\ downloadCallbacks[i] # t))

\* C28: isEpisodeDownloaded(id) returns true, and getDownloadedEpisodeUrl(id)
\* a handle, exactly when the audio store holds an entry under id, and false
\* or null when it does not; both return, and no step of either changes the
\* metadata store or the audio store.
C28_Expected(op, present) ==
    IF op = "isEpisodeDownloaded" THEN IF present THEN "true" ELSE "false"
                                  ELSE IF present THEN "handle" ELSE "null"
C28_Lookups ==
    /\ [][(lookup.pc # "done" /\ lookup'.pc = "done")
            => lookup'.result = C28_Expected(lookup.op, blob[lookup.arg])]_vars
    /\ [][lookup' # lookup => (persisted' = persisted /\ blob' = blob)]_vars
    /\ [](lookup.pc # "hung")

\* C29: when the response has no content-length (total = 0), every chunk
\* received by a download whose callback is registered produces a progress
\* report (of status 'downloading', for the bytes received so far).
C29_ChunkReported ==
    [][\A t \in Tasks :
          (/\ task[t].pc = "awaitRead" /\ task[t].total = 0
           /\ downloadCallbacks[task[t].id] = t
           /\ Len(task'[t].chunks) = Len(task[t].chunks) + 1)
          => (out' # NoEvent /\ out'.cb = t /\ out'.status = "downloading")]_vars

\* C30: validateFeedUrl(url) is true exactly when url parses as a URL whose
\* protocol is http: or https:, or url is a test:// mock feed; so it is false
\* for the empty string, for a string with no scheme, and for ftp: urls.
C30_Valid(url) ==
    \/ URLProtocol(url) \in {"http:", "https:"}
    \/ StartsWithTest(url)
C30_ValidateFeedUrl ==
    (lookup.op = "validateFeedUrl" /\ lookup.pc = "done")
    => /\ lookup.result = IF C30_Valid(lookup.arg) THEN "true" ELSE "false"
       /\ lookup.arg = <<>> => lookup.result = "false"
       /\ (lookup.arg # <<>> /\ lookup.arg[1] \in {"host", "/", "ftp:"})
             => lookup.result = "false"

\* an ftp: url that parses was rejected
C30_Witness ==
    /\ lookup.op = "validateFeedUrl" /\ lookup.pc = "done"
    /\ lookup.arg = <<"ftp:", "/", "host">>
    /\ URLProtocol(lookup.arg) = "ftp:"
    /\ lookup.result = "false"

\* C31: on stream completion a task sets the status to 'downloaded' only with
\* the blob it persisted in the store, the 'completed' event at 100 is emitted
\* only in a state where the blob is present and the status is 'downloaded',
\* and a task whose storeAudioData failed goes to the catch block and writes
\* 'error', never 'downloaded'.
C31_CompletionOrder ==
    [][\A t \in Tasks :
          LET i == task[t].id IN
          /\ (task[t].pc = "awaitStore" /\ task'[t].pc = "awaitUpdateDone")
                => (blob[i] /\ persisted'[i] = "downloaded")
          /\ (task[t].pc = "awaitUpdateDone" /\ task'[t].pc = "done")
                => /\ blob[i] /\ persisted[i] = "downloaded"
                   /\ out'.cb # NoTask => (out'.status = "completed" /\ out'.progress = 100)
          /\ (task[t].pc = "awaitStoreErr" /\ task'[t].pc # "awaitStoreErr")
                => (task'[t].pc = "awaitUpdateErr" /\ persisted'[i] = "error")]_vars

\* C32: every onProgress invocation carries a progress between 0 and 100
\* inclusive, whatever the chunk lengths and whatever the declared total is
\* relative to the bytes received.
C32_ProgressRange ==
    out.cb # NoTask => (0 <= out.progress /\ out.progress <= 100)

\* C33: no strategy writes a network response that is not ok into a partition:
\* no cache.put is ever issued with such a response, a step that answers a
\* request with a not-ok network response issues no put and changes no
\* partition, and a partition entry only ever changes to an ok response.
NotOkAnswer == Respond(NoResponse, "network")
C33_OnlyOkStored ==
    /\ [](\A put \in puts : put.body # NoResponse)
    /\ [][/\ \A r \in Requests :
                (Ended(r) /\ req'[r].answer = NotOkAnswer)
                   => (puts' = puts /\ cacheStore' = cacheStore)
          /\ \A n \in StrategyCaches, k \in Keys :
                cacheStore'[n][k] # cacheStore[n][k] => cacheStore'[n][k] # NoResponse]_vars

\* two strategies among cacheFirst, networkFirst and staleWhileRevalidate have
\* each returned a not-ok network response, and the keys have no entry
C33_Witness ==
    \E r, q \in Requests :
        /\ req[r].strategy = "staleWhileRevalidate" /\ req[q].strategy \in {"cacheFirst", "networkFirst"}
        /\ \A x \in {r, q} :
              /\ req[x].pc = "done" /\ req[x].answer = NotOkAnswer
              /\ cacheStore[req[x].cacheName][req[x].request.url] = NoResponse
              /\ \A put \in puts : put.url # req[x].request.url

\* C34: the teardown of a cancelled task (its catch block and its finally
\* block) removes only its own bookkeeping: when a newer task for the same id
\* owns the entry of activeDownloads, the teardown steps of the old task leave
\* that entry, the registered callback and the persisted status as they are.
C34_TeardownOwn ==
    [][\A t \in Tasks :
          LET i == task[t].id
              newer == activeDownloads[i]
          IN (/\ task[t].aborted
              /\ Caught(t) \/ Failed(t)
              /\ newer # NoTask /\ newer # t /\ Live(newer))
             => /\ activeDownloads'[i] = newer
                /\ downloadCallbacks'[i] = downloadCallbacks[i]
                /\ persisted'[i] = persisted[i]]_vars

\* C35: once cancelDownload has aborted a task, that task never writes a blob
\* under its id and never sets the status to 'downloaded', also when the
\* cancellation arrives after the last chunk was read and before the payload
\* is persisted.
C35_CancelledWritesNothing ==
    [][\A t \in Tasks :
          (task[t].aborted /\ task'[t] # task[t])
             => /\ task'[t].pc \notin {"awaitStore", "awaitUpdateDone"}
                /\ task[t].pc = "awaitUpdateDone" => task'[t].result # "resolved"]_vars

\* C36: whenever an episode's persisted status is 'downloading' a live
\* downloadEpisode execution for its id exists, also after the app was
\* restarted in the middle of a download.
C36_DownloadingHasTask ==
    \A i \in Ids : persisted[i] = "downloading" => LiveTasks(i) # {}

\* C37: savePlaybackPosition leaves the stored downloadStatus of the episode as
\* it is, also when a download started or finished after the player took its
\* snapshot; and the status writes of downloadEpisode and deleteDownload leave
\* the stored playbackPosition as it is.
C37_SeparateFields ==
    [][/\ (player.pc = "idle" /\ player'.pc = "awaitUpdate") => persisted' = persisted
       /\ (\E t \in Tasks : task'[t] # task[t]) => position' = position
       /\ (\E i \in Ids : del'[i] # del[i]) => position' = position]_vars

\* C38: every entry of the blob store belongs to an episode record that exists
\* in the metadata store, also after the subscription was removed or its
\* episodes were refreshed; and no step turns the status of a downloaded
\* episode into 'none' while its blob remains.
C38_BlobHasRecord ==
    /\ [](\A i \in Ids : blob[i] => persisted[i] # "absent")
    /\ [][\A i \in Ids : (persisted[i] = "downloaded" /\ blob'[i]) => persisted'[i] # "none"]_vars

\* C39: whenever the downloads database exists it has the 'audio' object
\* store, whichever operation opened it first; hence no storeAudioData,
\* getAudioData or deleteAudioData call is left without ever settling.
C39_AudioStoreExists ==
    /\ db # "storeless"
    /\ \A t \in Tasks : task[t].pc # "hung"
    /\ \A i \in Ids : del[i] # "hung"
    /\ lookup.pc # "hung"

\* C40: every DOWNLOAD_EPISODE command ends with exactly one terminal event
\* emitted to the clients: DOWNLOAD_COMPLETE, and then the media partition
\* holds an entry under the command's url, or DOWNLOAD_FAILED, and then the
\* command has written no entry; no other step of a command emits an event.
C40_OneTerminalPerCommand ==
    [][\A c \in Commands :
          LET u == swTask[c].url
              completes == swMsgs'[u].complete - swMsgs[u].complete
              fails == swMsgs'[u].failed - swMsgs[u].failed
          IN /\ (swTask[c].pc \notin {"idle", "done"} /\ swTask'[c].pc = "done")
                   => /\ completes + fails = 1
                      /\ completes = 1 => (u \in mediaCache /\ swTask[c].pc = "awaitClients")
                      /\ fails = 1 => swTask[c].pc = "awaitClientsErr"
             /\ (swTask[c].pc # "awaitClientsErr" /\ swTask'[c].pc = "awaitClientsErr")
                   => mediaCache' = mediaCache
             /\ (swTask'[c] # swTask[c] /\ swTask'[c].pc # "done") => swMsgs' = swMsgs]_vars

====
